---- MODULE Spec2Model ----
(***************************************************************************)
(* A model of the fantasy-football agent: the SQLite store (players,       *)
(* player_stats, my_team, trade_history), the PlayerAnalyzer, the          *)
(* TeamManager and the TradeRecommender.                                   *)
(*                                                                         *)
(* Numbers.  Fantasy points, averages, slopes, values and consistency      *)
(* scores are held in hundredths (an integer 1250 is 12.50), which is the  *)
(* grid every round(x, 2) of the code lands on.  Quantities the code does  *)
(* not round (the slope it classifies, percent_change before the label)    *)
(* are kept as exact fractions [num, den].  The arithmetic is that of the  *)
(* reals: binary floating-point error of the Python build is not modelled. *)
(***************************************************************************)
EXTENDS Integers, Sequences, FiniteSets, TLC

VARIABLES
    players,        \* table players: player_id -> [name, position]
    player_stats,   \* table player_stats: set of rows, UNIQUE(player_id, week, season)
    my_team,        \* table my_team: set of player_id (PRIMARY KEY)
    trade_history,  \* table trade_history: rows in AUTOINCREMENT order
    result,         \* what the last operation returned (or raised)
    work,           \* value computations and store reads of the last recommender call
    evaluations,    \* evaluate_trade calls so far that passed validation
    pending,        \* calls in flight: caller -> where the call stands
    scoring_format  \* config.SCORING_FORMAT, read from the environment at import

vars == <<players, player_stats, my_team, trade_history, result, work, evaluations,
          pending, scoring_format>>

(***************************************************************************)
(* config.py                                                               *)
(***************************************************************************)
WEEKS_TO_ANALYZE == 4
MIN_GAMES_PLAYED == 2
ROSTER_LIMITS ==
    ("QB" :> 2) @@ ("RB" :> 4) @@ ("WR" :> 4) @@ ("TE" :> 2) @@ ("K" :> 1) @@ ("DEF" :> 1)

\* SELECT over dict.items(): the insertion order of ROSTER_LIMITS.
ROSTER_LIMITS_order == <<"QB", "RB", "WR", "TE", "K", "DEF">>

(***************************************************************************)
(* Bounds of the model.                                                    *)
(***************************************************************************)
MaxHistory == 2     \* trade_history rows the model lets accumulate
MaxWeek == 2        \* weeks 1..MaxWeek can be ingested
Ids == {"p1", "p2", "p3", "p4", "p5", "p6"}
Seasons == {2024}
PointVals == {0, 1000, 2000}    \* fantasy points ingested, in hundredths

\* BINARY collation of the TEXT values the model uses (ORDER BY position, name).
TextOrder == <<"DEF", "K", "LB", "QB", "RB", "TE", "WR",
               "n01", "n02", "n03", "n04", "n05", "n06", "n07", "n08", "n09",
               "n10", "n11", "n12", "n13", "n14", "n15", "n16", "n17", "n18",
               "n19", "n20", "n21", "n22",
               "p1", "p2", "p3", "p4", "p5", "p6">>
TextRank(s) == CHOOSE i \in 1..Len(TextOrder) : TextOrder[i] = s

(***************************************************************************)
(* Arithmetic helpers.                                                     *)
(***************************************************************************)
\* dict.get(key, 0)
Get(d, key) == IF key \in DOMAIN d THEN d[key] ELSE 0

Abs(x) == IF x < 0 THEN -x ELSE x
Max2(a, b) == IF a >= b THEN a ELSE b

\* round(num/den) to the nearest integer, ties to even (Python's round); den > 0.
RoundDiv(num, den) ==
    LET q == num \div den
        r == num % den
    IN  IF 2 * r < den THEN q
        ELSE IF 2 * r > den THEN q + 1
        ELSE IF q % 2 = 0 THEN q ELSE q + 1

RECURSIVE SumSeq(_)
SumSeq(s) == IF s = <<>> THEN 0 ELSE Head(s) + SumSeq(Tail(s))

RECURSIVE SumSq(_)
SumSq(s) == IF s = <<>> THEN 0 ELSE Head(s) * Head(s) + SumSq(Tail(s))

\* sum of i * s[i+1] for i = 0..n-1 (x = np.arange(n))
RECURSIVE SumIdx(_, _)
SumIdx(s, i) == IF s = <<>> THEN 0 ELSE i * Head(s) + SumIdx(Tail(s), i + 1)

RECURSIVE Reverse(_)
Reverse(s) == IF s = <<>> THEN <<>> ELSE Append(Reverse(Tail(s)), Head(s))

Take(s, n) == IF Len(s) <= n THEN s ELSE SubSeq(s, 1, n)
Drop(s, n) == IF Len(s) <= n THEN <<>> ELSE SubSeq(s, n + 1, Len(s))

\* m * m <= 100000000 * d, computed without leaving 32 bits (0 <= m, 0 <= d).
SqLeq(m, d) ==
    LET u == m \div 10000
        v == m % 10000
        a == 2 * u * v
        rr == (a % 10000) * 10000 + v * v
        k == u * u + (a \div 10000) + (rr \div 100000000)
    IN  k < d \/ (k = d /\ rr % 100000000 = 0)

\* The greatest r in lo..hi with (2r-1)*s <= 20000*sqrt(d), i.e. the nearest
\* integer to 10000*sqrt(d)/s: precondition, lo satisfies it.
RECURSIVE NearestCv(_, _, _, _)
NearestCv(lo, hi, s, d) ==
    IF lo >= hi THEN lo
    ELSE LET mid == (lo + hi + 1) \div 2
         IN  IF SqLeq((2 * mid - 1) * s, 4 * d)
             THEN NearestCv(mid, hi, s, d)
             ELSE NearestCv(lo, mid - 1, s, d)

\* The greatest g in lo..hi with g * g <= n.
RECURSIVE Isqrt(_, _, _)
Isqrt(lo, hi, n) ==
    IF lo >= hi THEN lo
    ELSE LET mid == (lo + hi + 1) \div 2
         IN  IF mid * mid <= n THEN Isqrt(mid, hi, n) ELSE Isqrt(lo, mid - 1, n)

\* |10000 * sqrt(d) / s| to the nearest integer, for s # 0 and d >= 0.
CvHundredths(s, d) ==
    LET a == Abs(s)
        hi == (10000 * (Isqrt(0, 46340, 4 * d) + 1)) \div (2 * a) + 1
    IN  IF d = 0 THEN 0 ELSE NearestCv(0, hi, a, d)

(***************************************************************************)
(* Database (src/src/database.py): the reads.                              *)
(***************************************************************************)
NoPlayer == [none |-> TRUE]     \* Python's None

\* A lookup that gives an unknown identifier an empty row.
get_player_by_id_defaulting(pl, player_id) ==
    IF player_id \in DOMAIN pl
    THEN [player_id |-> player_id, name |-> pl[player_id].name,
          position |-> pl[player_id].position]
    ELSE [player_id |-> player_id, name |-> "", position |-> ""]

\* SELECT * FROM players WHERE player_id = ?
get_player_by_id(pl, player_id) ==
    IF player_id \in DOMAIN pl
    THEN [player_id |-> player_id, name |-> pl[player_id].name,
          position |-> pl[player_id].position]
    ELSE NoPlayer

\* ORDER BY week DESC, season DESC
Newer_week_first(r, q) == r.week > q.week \/ (r.week = q.week /\ r.season >= q.season)

\* ORDER BY season DESC, week DESC
Newer(r, q) == r.season > q.season \/ (r.season = q.season /\ r.week >= q.week)

RECURSIVE OrderNewestFirst(_)
OrderNewestFirst(rows) ==
    IF rows = {} THEN <<>>
    ELSE LET top == CHOOSE r \in rows : \A q \in rows : Newer(r, q)
         IN  <<top>> \o OrderNewestFirst(rows \ {top})

\* SELECT * FROM player_stats WHERE player_id = ? ORDER BY ... [LIMIT weeks]
get_player_stats(st, player_id, weeks) ==
    LET all == OrderNewestFirst({r \in st : r.player_id = player_id})
    IN  IF weeks # 0 THEN Take(all, weeks) ELSE all

RECURSIVE Points(_)
Points(stats) ==
    IF stats = <<>> THEN <<>>
    ELSE <<Head(stats).fantasy_points>> \o Points(Tail(stats))

\* ORDER BY position, name  /  ORDER BY name
RowBefore(a, b) ==
    \/ TextRank(a.position) < TextRank(b.position)
    \/ a.position = b.position /\ TextRank(a.name) < TextRank(b.name)
    \/ a.position = b.position /\ a.name = b.name
        /\ TextRank(a.player_id) <= TextRank(b.player_id)

RECURSIVE OrderRows(_)
OrderRows(rows) ==
    IF rows = {} THEN <<>>
    ELSE LET first == CHOOSE r \in rows : \A q \in rows : RowBefore(r, q)
         IN  <<first>> \o OrderRows(rows \ {first})

\* SELECT p.* FROM my_team mt JOIN players p ... ORDER BY p.position, p.name
get_my_team(pl, tm) ==
    OrderRows({get_player_by_id(pl, id) : id \in tm \cap DOMAIN pl})

\* ORDER BY name
NameBefore(a, b) ==
    \/ TextRank(a.name) < TextRank(b.name)
    \/ a.name = b.name /\ TextRank(a.player_id) <= TextRank(b.player_id)

RECURSIVE OrderByName(_)
OrderByName(rows) ==
    IF rows = {} THEN <<>>
    ELSE LET first == CHOOSE r \in rows : \A q \in rows : NameBefore(r, q)
         IN  <<first>> \o OrderByName(rows \ {first})

\* SELECT * FROM players [WHERE position = ?] ORDER BY name; position "" is
\* position = None.
get_all_players(pl, position) ==
    OrderByName({get_player_by_id(pl, id) :
                    id \in {i \in DOMAIN pl :
                                position = "" \/ pl[i].position = position}})

(***************************************************************************)
(* PlayerAnalyzer (src/src/analyzer.py).  Each calculate_* reads the       *)
(* player's window from the store itself; its arithmetic is an operator    *)
(* on the points of that window (newest first).                            *)
(***************************************************************************)
\* round(np.mean(points), 2)
mean_points(points) ==
    IF Len(points) = 0 THEN 0
    ELSE RoundDiv(SumSeq(points), Len(points))

calculate_average_points(st, player_id) ==
    mean_points(Points(get_player_stats(st, player_id, WEEKS_TO_ANALYZE)))

\* max(0, 100 - std/avg*100), rounded: with n points of sum s,
\* (n * std)^2 = n * sum of squares - s^2 = d and cv = 100 * sqrt(d) / s.
consistency_score(points) ==
    LET n == Len(points)
        s == SumSeq(points)
        d == n * SumSq(points) - s * s
    IN  IF n < 2 THEN 0
        ELSE IF s = 0 THEN 0                \* avg == 0
        ELSE IF s > 0
             THEN (IF d >= s * s THEN 0     \* cv >= 100
                   ELSE 10000 - CvHundredths(s, d))
             ELSE 10000 + CvHundredths(s, d) \* avg < 0: cv < 0

calculate_consistency(st, player_id) ==
    consistency_score(Points(get_player_stats(st, player_id, WEEKS_TO_ANALYZE)))

\* The fit over the window as read, newest first, with no reversal.
Slope_unreversed(points) ==
    LET n == Len(points)
        sx == (n * (n - 1)) \div 2
        sxx == ((n - 1) * n * (2 * n - 1)) \div 6
    IN  [num |-> n * SumIdx(points, 0) - sx * SumSeq(points),
         den |-> n * sxx - sx * sx]

\* np.polyfit(x, y, 1)[0] for y the points oldest first: an exact fraction.
Slope(points) ==
    LET n == Len(points)
        sx == (n * (n - 1)) \div 2
        sxx == ((n - 1) * n * (2 * n - 1)) \div 6
    IN  [num |-> n * SumIdx(Reverse(points), 0) - sx * SumSeq(points),
         den |-> n * sxx - sx * sx]

trend_of_slope(slope) ==
    [trend |-> IF slope.num > 200 * slope.den THEN "improving"
               ELSE IF slope.num < -200 * slope.den THEN "declining"
               ELSE "stable",
     trend_value |-> RoundDiv(slope.num, slope.den)]

trend_of(points) ==
    IF Len(points) < 2 THEN [trend |-> "insufficient_data", trend_value |-> 0]
    ELSE trend_of_slope(Slope(points))

calculate_trend(st, player_id) ==
    trend_of(Points(get_player_stats(st, player_id, WEEKS_TO_ANALYZE)))

\* np.mean of stats[:2] if len(stats) >= 2 else 0, rounded
recent_avg_of(points) ==
    IF Len(points) >= 2 THEN RoundDiv(SumSeq(Take(points, 2)), 2) ELSE 0

\* np.mean of stats[2:] if len(stats) > 2 else recent_avg, rounded
earlier_avg_of(points) ==
    IF Len(points) > 2 THEN RoundDiv(SumSeq(Drop(points, 2)), Len(points) - 2)
    ELSE recent_avg_of(points)

\* The dictionary get_player_analysis returns, from what it read and computed.
analysis_result(player, stats, avg_points, consistency, trend) ==
    IF player = NoPlayer THEN [error |-> "Player not found"]
    ELSE IF Len(stats) = 0
    THEN [player |-> player, error |-> "No stats available",
          avg_points |-> 0, consistency |-> 0,
          trend |-> "no_data", trend_value |-> 0]
    ELSE [player |-> player,
          avg_points |-> avg_points,
          consistency |-> consistency,
          trend |-> trend.trend,
          trend_value |-> trend.trend_value,
          recent_avg |-> recent_avg_of(Points(stats)),
          earlier_avg |-> earlier_avg_of(Points(stats)),
          recent_stats |-> Take(stats, 4),
          games_played |-> Len(stats),
          total_points |-> SumSeq(Points(stats))]

get_player_analysis(pl, st, player_id) ==
    analysis_result(get_player_by_id(pl, player_id),
                    get_player_stats(st, player_id, WEEKS_TO_ANALYZE),
                    calculate_average_points(st, player_id),
                    calculate_consistency(st, player_id),
                    calculate_trend(st, player_id))

\* get_player_analysis read by read.  Each of get_player_stats (line 83),
\* calculate_average_points, calculate_consistency and calculate_trend
\* opens its own connection and reads the store as it is at that moment.
\* Lines 78-93: the player and the window are read.
analysis_begin(pl, st, player_id, player, stats) ==
    IF player = NoPlayer \/ Len(stats) = 0
    THEN [pc |-> "returned", player_id |-> player_id,
          ret |-> analysis_result(player, stats, 0, 0,
                                  [trend |-> "no_data", trend_value |-> 0])]
    ELSE [pc |-> "window_read", player_id |-> player_id, player |-> player,
          stats |-> stats]

\* Line 95: avg_points = self.calculate_average_points(player_id)
analysis_average(st, call) ==
    [pc |-> "average_read", player_id |-> call.player_id, player |-> call.player,
     stats |-> call.stats,
     avg_points |-> calculate_average_points(st, call.player_id)]

\* Line 96: consistency = self.calculate_consistency(player_id)
analysis_consistency(st, call) ==
    [pc |-> "consistency_read", player_id |-> call.player_id,
     player |-> call.player, stats |-> call.stats, avg_points |-> call.avg_points,
     consistency |-> calculate_consistency(st, call.player_id)]

\* Lines 97-114: trend, trend_value = self.calculate_trend(player_id), and the
\* dictionary returned.
analysis_trend(st, call) ==
    analysis_result(call.player, call.stats, call.avg_points, call.consistency,
                    calculate_trend(st, call.player_id))

HasError(analysis) == "error" \in DOMAIN analysis

\* Store reads of the get_player_analysis call that returned `analysis`:
\* the player; its window; the three calculate_* calls.
analysis_reads(analysis) ==
    IF "player" \notin DOMAIN analysis THEN 1
    ELSE IF HasError(analysis) THEN 2
    ELSE 5

RECURSIVE SumReads(_)
SumReads(analyses) ==
    IF analyses = <<>> THEN 0
    ELSE analysis_reads(Head(analyses)) + SumReads(Tail(analyses))

\* The dictionary compare_players returns from the two analyses.
comparison_of(analysis1, analysis2) ==
    IF HasError(analysis1) \/ HasError(analysis2)
    THEN [error |-> "One or both players not found or have no stats"]
    ELSE [player1 |-> analysis1, player2 |-> analysis2,
          comparison |->
            [points_difference |-> analysis1.avg_points - analysis2.avg_points,
             points_winner |->
                IF analysis1.avg_points - analysis2.avg_points > 0
                THEN analysis1.player.name ELSE analysis2.player.name,
             consistency_difference |->
                analysis1.consistency - analysis2.consistency,
             consistency_winner |->
                IF analysis1.consistency - analysis2.consistency > 0
                THEN analysis1.player.name ELSE analysis2.player.name]]

compare_players(pl, st, player_id1, player_id2) ==
    comparison_of(get_player_analysis(pl, st, player_id1),
                  get_player_analysis(pl, st, player_id2))

(***************************************************************************)
(* TeamManager (src/src/team_manager.py): the reads.                       *)
(***************************************************************************)
get_team(pl, tm) == get_my_team(pl, tm)

\* A limit of 1 for positions ROSTER_LIMITS does not list.
limit_of_default_one(position) ==
    IF position \in DOMAIN ROSTER_LIMITS THEN ROSTER_LIMITS[position] ELSE 1

\* config.ROSTER_LIMITS.get(position, 0)
limit_of(position) ==
    IF position \in DOMAIN ROSTER_LIMITS THEN ROSTER_LIMITS[position] ELSE 0

\* The positions of a list of player rows, each once, in order of first appearance
\* (the key order of a dict filled while iterating the list).
RECURSIVE KeyOrder(_, _)
KeyOrder(rows, seen) ==
    IF rows = <<>> THEN <<>>
    ELSE IF Head(rows).position \in seen THEN KeyOrder(Tail(rows), seen)
    ELSE <<Head(rows).position>>
            \o KeyOrder(Tail(rows), seen \cup {Head(rows).position})

RECURSIVE CountAt(_, _)
CountAt(rows, position) ==
    IF rows = <<>> THEN 0
    ELSE (IF Head(rows).position = position THEN 1 ELSE 0)
            + CountAt(Tail(rows), position)

\* player_analyses of get_team_analysis: one analysis per team row.
RECURSIVE team_analyses(_, _, _)
team_analyses(pl, st, team) ==
    IF team = <<>> THEN <<>>
    ELSE <<get_player_analysis(pl, st, Head(team).player_id)>>
            \o team_analyses(pl, st, Tail(team))

\* count and total_avg of one position: the players whose analysis has no error.
RECURSIVE position_totals(_, _, _)
position_totals(team, analyses, position) ==
    IF team = <<>> THEN [count |-> 0, total_avg |-> 0]
    ELSE LET rest == position_totals(Tail(team), Tail(analyses), position)
         IN  IF Head(team).position = position /\ ~HasError(Head(analyses))
             THEN [count |-> rest.count + 1,
                   total_avg |-> rest.total_avg + Head(analyses).avg_points]
             ELSE rest

\* analysis_by_position of get_team_analysis, as a list in key order.
RECURSIVE by_position(_, _, _)
by_position(team, analyses, keys) ==
    IF keys = <<>> THEN <<>>
    ELSE LET t == position_totals(team, analyses, Head(keys))
         IN  <<[position |-> Head(keys), count |-> t.count,
                total_avg |-> t.total_avg,
                \* data.get("avg_per_player", 0): the key is set only if count > 0
                avg_per_player |-> IF t.count > 0
                                   THEN RoundDiv(t.total_avg, t.count) ELSE 0]>>
             \o by_position(team, analyses, Tail(keys))

weak_threshold(position) ==
    CASE position = "QB" -> 1500
      [] position \in {"RB", "WR"} -> 1000
      [] position = "TE" -> 600
      [] OTHER -> 500

RECURSIVE count_of(_, _)
count_of(position_analysis, position) ==
    IF position_analysis = <<>> THEN 0
    ELSE IF Head(position_analysis).position = position
    THEN Head(position_analysis).count
    ELSE count_of(Tail(position_analysis), position)

\* The first loop of _identify_weaknesses: unfilled positions.
RECURSIVE unfilled_positions(_, _)
unfilled_positions(position_analysis, positions) ==
    IF positions = <<>> THEN <<>>
    ELSE LET position == Head(positions)
             current_count == count_of(position_analysis, position)
         IN  (IF current_count = 0
              THEN <<[kind |-> "No", position |-> position]>>
              ELSE IF current_count < ROSTER_LIMITS[position]
              THEN <<[kind |-> "Only", position |-> position,
                      count |-> current_count,
                      limit |-> ROSTER_LIMITS[position]]>>
              ELSE <<>>)
             \o unfilled_positions(position_analysis, Tail(positions))

\* The second loop of _identify_weaknesses: low-performing positions.
RECURSIVE weak_positions(_)
weak_positions(position_analysis) ==
    IF position_analysis = <<>> THEN <<>>
    ELSE LET data == Head(position_analysis)
         IN  (IF data.avg_per_player < weak_threshold(data.position)
                 /\ data.avg_per_player > 0
              THEN <<[kind |-> "Weak", position |-> data.position,
                      avg |-> data.avg_per_player]>>
              ELSE <<>>)
             \o weak_positions(Tail(position_analysis))

\* Weakness messages, as [kind, position, ...]: "No <pos> on roster",
\* "Only <c>/<limit> <pos> positions filled", "Weak <pos> position (avg <a> pts)".
_identify_weaknesses(position_analysis) ==
    unfilled_positions(position_analysis, ROSTER_LIMITS_order)
        \o weak_positions(position_analysis)

\* The dictionary get_team_analysis returns for a non-empty team: the fields
\* the recommender reads (strengths and total_projected_points are display data).
team_summary(team, analyses, position_analysis) ==
    [team_size |-> Len(team), by_position |-> position_analysis,
     player_analyses |-> analyses,
     weaknesses |-> _identify_weaknesses(position_analysis)]

analysis_of_team(team, analyses) ==
    IF team = <<>> THEN [message |-> "Your team is empty"]
    ELSE team_summary(team, analyses,
                      by_position(team, analyses, KeyOrder(team, {})))

analysis_of_roster(pl, st, team) ==
    analysis_of_team(team, team_analyses(pl, st, team))

get_team_analysis(pl, st, tm) == analysis_of_roster(pl, st, get_team(pl, tm))

RECURSIVE PlayersAt(_, _)
PlayersAt(team, position) ==
    IF team = <<>> THEN <<>>
    ELSE (IF Head(team).position = position THEN <<Head(team)>> ELSE <<>>)
         \o PlayersAt(Tail(team), position)

\* The dictionary get_position_depth returns, with the store reads of the call.
depth_of(pl, st, position, position_players) ==
    [position |-> position, count |-> Len(position_players),
     max_allowed |-> limit_of(position),
     reads |-> 1 + SumReads(team_analyses(pl, st, position_players))]

get_position_depth(pl, st, tm, position) ==
    depth_of(pl, st, position, PlayersAt(get_team(pl, tm), position))

(***************************************************************************)
(* TradeRecommender (src/src/trade_recommender.py).                        *)
(***************************************************************************)
\* The weighted sum with no floor at 0.
player_value_unfloored(analysis) ==
    IF HasError(analysis) THEN 0
    ELSE RoundDiv(30000 * analysis.avg_points
                  + analysis.consistency * analysis.avg_points
                  + 10000 * analysis.trend_value, 50000)

\* value = 0.6*avg + 0.002*consistency*avg + 0.2*trend_value, floored at 0,
\* rounded to 2 decimals: in hundredths, (30000*a + c*a + 10000*s) / 50000.
player_value(analysis) ==
    IF HasError(analysis) THEN 0
    ELSE RoundDiv(Max2(0, 30000 * analysis.avg_points
                          + analysis.consistency * analysis.avg_points
                          + 10000 * analysis.trend_value),
                  50000)

calculate_player_value(pl, st, player_id) ==
    player_value(get_player_analysis(pl, st, player_id))

\* One valued identifier of a trade side.
valuation(player_id, player, analysis) ==
    [player_id |-> player_id, player |-> player, analysis |-> analysis,
     value |-> player_value(analysis)]

\* For each identifier of a trade side: the player row (get_player_by_id),
\* the analysis and the value calculate_player_value gives it.
RECURSIVE valuations(_, _, _)
valuations(pl, st, ids) ==
    IF ids = <<>> THEN <<>>
    ELSE <<valuation(Head(ids), get_player_by_id(pl, Head(ids)),
                     get_player_analysis(pl, st, Head(ids)))>>
         \o valuations(pl, st, Tail(ids))

RECURSIVE SumValues(_)
SumValues(vals) ==
    IF vals = <<>> THEN 0 ELSE Head(vals).value + SumValues(Tail(vals))

\* A percent_change that takes a given value of 0 as the smallest value, 0.01.
percent_change_of_unguarded(value_in, value_out) ==
    [num |-> (value_in - value_out) * 100, den |-> Max2(value_out, 1)]

\* percent_change as an exact fraction: value_diff / value_out * 100, or 0.
percent_change_of(value_in, value_out) ==
    IF value_out > 0 THEN [num |-> (value_in - value_out) * 100, den |-> value_out]
    ELSE [num |-> 0, den |-> 1]

\* The labels with inclusive boundaries.
recommendation_of_inclusive(pc) ==
    IF pc.num >= 15 * pc.den THEN "STRONG ACCEPT"
    ELSE IF pc.num >= 5 * pc.den THEN "ACCEPT"
    ELSE IF pc.num >= -5 * pc.den THEN "FAIR TRADE"
    ELSE IF pc.num >= -15 * pc.den THEN "DECLINE"
    ELSE "STRONG DECLINE"

recommendation_of(pc) ==
    IF pc.num > 15 * pc.den THEN "STRONG ACCEPT"
    ELSE IF pc.num > 5 * pc.den THEN "ACCEPT"
    ELSE IF pc.num > -5 * pc.den THEN "FAIR TRADE"
    ELSE IF pc.num > -15 * pc.den THEN "DECLINE"
    ELSE "STRONG DECLINE"

\* The reason text: its wording and the percentage it prints with one decimal
\* (in tenths; abs() where the code takes it).
reason_text(label, pc) ==
    IF label = "STRONG ACCEPT"
    THEN [text |-> "Excellent value gain of",
          percent |-> RoundDiv(Abs(pc.num) * 10, pc.den)]
    ELSE IF label = "ACCEPT"
    THEN [text |-> "Good value gain of", percent |-> RoundDiv(pc.num * 10, pc.den)]
    ELSE IF label = "FAIR TRADE"
    THEN [text |-> "Values are relatively equal", percent |-> 0]
    ELSE IF label = "DECLINE"
    THEN [text |-> "Losing", percent |-> RoundDiv(Abs(pc.num) * 10, pc.den)]
    ELSE [text |-> "Significant value loss of",
          percent |-> RoundDiv(Abs(pc.num) * 10, pc.den)]

reason_of(pc) == reason_text(recommendation_of(pc), pc)

\* players_out_details / players_in_details: unknown identifiers are skipped.
RECURSIVE player_details(_)
player_details(vals) ==
    IF vals = <<>> THEN <<>>
    ELSE (IF Head(vals).player # NoPlayer
          THEN <<[player |-> Head(vals).player,
                  value |-> Head(vals).value,
                  avg_points |-> Head(vals).analysis.avg_points,
                  trend |-> Head(vals).analysis.trend]>>
          ELSE <<>>)
         \o player_details(Tail(vals))

RECURSIVE DetailRows(_)
DetailRows(details) ==
    IF details = <<>> THEN <<>>
    ELSE <<Head(details).player>> \o DetailRows(Tail(details))

RECURSIVE DetailAnalyses(_)
DetailAnalyses(vals) ==
    IF vals = <<>> THEN <<>>
    ELSE (IF Head(vals).player # NoPlayer THEN <<Head(vals).analysis>> ELSE <<>>)
         \o DetailAnalyses(Tail(vals))

RECURSIVE AllAnalyses(_)
AllAnalyses(vals) ==
    IF vals = <<>> THEN <<>>
    ELSE <<Head(vals).analysis>> \o AllAnalyses(Tail(vals))

\* `pos in weakness`: a substring test; of the position codes of the model a
\* weakness message contains exactly the one it is about.
PosInWeakness(pos, weakness) == pos = weakness.position

\* One pass of the first loop of _assess_positional_impact for a position the
\* trade loses players at: depth is get_position_depth(pos).
depth_impact(pos, net_change, depth, rest) ==
    [impacts |-> (IF depth.count - Abs(net_change) < 2
                  THEN <<[note |-> "Weakens depth", position |-> pos]>>
                  ELSE <<>>) \o rest.impacts,
     reads |-> depth.reads + rest.reads]

\* The first loop of _assess_positional_impact, with the store reads of its
\* get_position_depth calls.
RECURSIVE weakens_depth(_, _, _, _, _, _)
weakens_depth(pl, st, tm, rows_out, rows_in, positions) ==
    IF positions = <<>> THEN [impacts |-> <<>>, reads |-> 0]
    ELSE IF CountAt(rows_in, Head(positions)) - CountAt(rows_out, Head(positions)) < 0
    THEN depth_impact(Head(positions),
                      CountAt(rows_in, Head(positions))
                        - CountAt(rows_out, Head(positions)),
                      get_position_depth(pl, st, tm, Head(positions)),
                      weakens_depth(pl, st, tm, rows_out, rows_in, Tail(positions)))
    ELSE weakens_depth(pl, st, tm, rows_out, rows_in, Tail(positions))

\* for pos in positions_in.keys(): if pos in weakness: append; break
RECURSIVE first_addressed(_, _)
first_addressed(weakness, positions_in) ==
    IF positions_in = <<>> THEN <<>>
    ELSE IF PosInWeakness(Head(positions_in), weakness)
    THEN <<[note |-> "Addresses weakness", position |-> Head(positions_in)]>>
    ELSE first_addressed(weakness, Tail(positions_in))

RECURSIVE addresses_weakness(_, _)
addresses_weakness(weaknesses, positions_in) ==
    IF weaknesses = <<>> THEN <<>>
    ELSE first_addressed(Head(weaknesses), positions_in)
            \o addresses_weakness(Tail(weaknesses), positions_in)

\* team_analysis.get("weaknesses", [])
weaknesses_of(team_analysis) ==
    IF "weaknesses" \in DOMAIN team_analysis THEN team_analysis.weaknesses ELSE <<>>

impact_notes(losing, weaknesses, positions_in) ==
    [impacts |-> losing.impacts \o addresses_weakness(weaknesses, positions_in),
     reads |-> losing.reads]

positional_impact_of(pl, st, tm, rows_out, rows_in, team_analysis) ==
    impact_notes(weakens_depth(pl, st, tm, rows_out, rows_in, KeyOrder(rows_out, {})),
                 weaknesses_of(team_analysis), KeyOrder(rows_in, {}))

\* The impact notes in order (the text joins them with " "), and the reads.
_assess_positional_impact(pl, st, tm, players_out, players_in, team_analysis) ==
    positional_impact_of(pl, st, tm, DetailRows(players_out), DetailRows(players_in),
                         team_analysis)

\* ",".join(ids): the text as its tokens.
RECURSIVE Join(_)
Join(ids) ==
    IF ids = <<>> THEN <<>>
    ELSE IF Len(ids) = 1 THEN <<Head(ids)>>
    ELSE <<Head(ids), ",">> \o Join(Tail(ids))

\* An INSERT with the two sides in each other's column.
save_trade_analysis_swapped(players_out, players_in, recommendation, value_diff) ==
    [players_out |-> Join(players_in), players_in |-> Join(players_out),
     recommendation |-> recommendation, value_difference |-> value_diff]

\* The row save_trade_analysis inserts.
save_trade_analysis(players_out, players_in, recommendation, value_diff) ==
    [players_out |-> Join(players_out), players_in |-> Join(players_in),
     recommendation |-> recommendation, value_difference |-> value_diff]

NoWork == [value_calls |-> 0, reads |-> 0]

\* TeamManager has one add_player in flight per caller at most.
Callers == {"c1", "c2"}
Idle == [pc |-> "idle"]
NoPending == [c \in Callers |-> Idle]

\* A validation that looks at the given side only.
missing_side_out_only(players_out, players_in) == players_out = <<>>

\* if not players_out or not players_in
missing_side(players_out, players_in) == players_out = <<>> \/ players_in = <<>>

\* The work of a validated evaluate_trade: calculate_player_value once per
\* identifier in the sums and once per known identifier in the details; store
\* reads of those, of get_player_by_id and get_player_analysis in the details,
\* of get_team_analysis and of the get_position_depth calls.
trade_work(vals, known, team_analysis, positional_impact) ==
    [value_calls |-> Len(vals) + Len(known),
     reads |-> SumReads(AllAnalyses(vals)) + Len(vals) + 2 * SumReads(known)
               + 1 + (IF "player_analyses" \in DOMAIN team_analysis
                      THEN SumReads(team_analysis.player_analyses) ELSE 0)
               + positional_impact.reads]

\* Lines 76-119: label, reason, the audit row, the returned dictionary.
trade_outcome(players_out, players_in, write_ok, players_out_details, players_in_details, value_out, value_in, pc, positional_impact, did) ==
    IF ~write_ok
    THEN [ret |-> [raised |-> "sqlite3.Error"], rows |-> <<>>,
          validated |-> TRUE, work |-> did]
    ELSE [ret |-> [giving |-> players_out_details,
                   receiving |-> players_in_details,
                   value_giving |-> value_out,
                   value_receiving |-> value_in,
                   value_difference |-> value_in - value_out,
                   percent_change |-> RoundDiv(pc.num * 100, pc.den),
                   recommendation |-> recommendation_of(pc),
                   reason |-> [base |-> reason_of(pc),
                               impact |-> positional_impact.impacts]],
          rows |-> <<save_trade_analysis(players_out, players_in,
                                         recommendation_of(pc), value_in - value_out)>>,
          validated |-> TRUE, work |-> did]

\* Lines 93-100: the positional impact, once the sides are valued.
trade_assessed(players_out, players_in, write_ok, vals_out, vals_in, team_analysis, positional_impact) ==
    trade_outcome(players_out, players_in, write_ok,
                  player_details(vals_out), player_details(vals_in),
                  SumValues(vals_out), SumValues(vals_in),
                  percent_change_of(SumValues(vals_in), SumValues(vals_out)),
                  positional_impact,
                  trade_work(vals_out \o vals_in,
                             DetailAnalyses(vals_out) \o DetailAnalyses(vals_in),
                             team_analysis, positional_impact))

\* Lines 44-74: the sides valued and detailed; the team analysed.
trade_valued(pl, st, tm, players_out, players_in, write_ok, vals_out, vals_in, team_analysis) ==
    trade_assessed(players_out, players_in, write_ok, vals_out, vals_in,
                   team_analysis,
                   _assess_positional_impact(pl, st, tm, player_details(vals_out),
                                             player_details(vals_in), team_analysis))

\* evaluate_trade(players_out, players_in).  write_ok: whether the INSERT of
\* save_trade_analysis succeeds; when it raises, the exception leaves
\* evaluate_trade (the call is not wrapped in try/except).
\* Returns what the call returns (ret), the rows it appended, whether the
\* call passed the validation, and its work: the calculate_player_value calls
\* and the store reads it made.
evaluate_trade(pl, st, tm, players_out, players_in, write_ok) ==
    IF missing_side(players_out, players_in)
    THEN [ret |-> [error |-> "Must specify players for both sides of trade"],
          rows |-> <<>>, validated |-> FALSE, work |-> NoWork]
    ELSE trade_valued(pl, st, tm, players_out, players_in, write_ok,
                      valuations(pl, st, players_out),
                      valuations(pl, st, players_in),
                      get_team_analysis(pl, st, tm))

\* list.sort(key=...): a stable ascending sort of [key, item] pairs.
RECURSIVE InsertByKey(_, _)
InsertByKey(sorted, x) ==
    IF sorted = <<>> THEN <<x>>
    ELSE IF Head(sorted).key <= x.key
    THEN <<Head(sorted)>> \o InsertByKey(Tail(sorted), x)
    ELSE <<x>> \o sorted

RECURSIVE StableSort(_)
StableSort(s) ==
    IF s = <<>> THEN <<>>
    ELSE InsertByKey(StableSort(SubSeq(s, 1, Len(s) - 1)), s[Len(s)])

RECURSIVE Items(_)
Items(pairs) ==
    IF pairs = <<>> THEN <<>> ELSE <<Head(pairs).item>> \o Items(Tail(pairs))

AddWork(a, b) ==
    [value_calls |-> a.value_calls + b.value_calls, reads |-> a.reads + b.reads]

\* acc after calculate_player_value(player) in the loop.
suggest_seen(acc, analysis) ==
    [acc EXCEPT !.work = AddWork(@, [value_calls |-> 1,
                                     reads |-> analysis_reads(analysis)])]

\* acc after suggestions.append(...): ev is the evaluate_trade call.
suggest_added(acc, player, target_player, ev) ==
    [suggestions |-> Append(acc.suggestions,
                            [your_player |-> player,
                             target_player |-> target_player,
                             evaluation |-> ev.ret]),
     rows |-> acc.rows \o ev.rows,
     calls |-> acc.calls + (IF ev.validated THEN 1 ELSE 0),
     work |-> AddWork(acc.work, ev.work),
     raised |-> FALSE]

\* The loop of suggest_trades_for_player over my_team, from `team` on.
\* acc: [suggestions, rows, calls, work, raised].
RECURSIVE suggest_loop(_, _, _, _, _, _, _)

\* One pass of the loop once the player is valued.
suggest_step(pl, st, tm, target_player_id, target_value, team, acc, my_value) ==
    IF Max2(my_value, target_value) = 0
    THEN [acc EXCEPT !.raised = TRUE]                    \* ZeroDivisionError
    ELSE IF 5 * Abs(target_value - my_value) < Max2(my_value, target_value)
                                                         \* ratio < 0.2
    THEN suggest_loop(pl, st, tm, target_player_id, target_value, Tail(team),
            suggest_added(acc, Head(team), get_player_by_id(pl, target_player_id),
                          evaluate_trade(pl, st, tm, <<Head(team).player_id>>,
                                         <<target_player_id>>, TRUE)))
    ELSE suggest_loop(pl, st, tm, target_player_id, target_value, Tail(team), acc)

suggest_valued(pl, st, tm, target_player_id, target_value, team, acc, analysis) ==
    suggest_step(pl, st, tm, target_player_id, target_value, team,
                 suggest_seen(acc, analysis), player_value(analysis))

suggest_loop(pl, st, tm, target_player_id, target_value, team, acc) ==
    IF team = <<>> \/ acc.raised THEN acc
    ELSE suggest_valued(pl, st, tm, target_player_id, target_value, team, acc,
                        get_player_analysis(pl, st, Head(team).player_id))

RECURSIVE KeyedByCloseness(_)
KeyedByCloseness(suggestions) ==
    IF suggestions = <<>> THEN <<>>
    ELSE <<[key |-> Abs(Head(suggestions).evaluation.value_difference),
            item |-> Head(suggestions)]>> \o KeyedByCloseness(Tail(suggestions))

\* What suggest_trades_for_player returns (or raises) after its loop.
suggest_result(done) ==
    [ret |-> IF done.raised THEN <<>>
             ELSE Take(Items(StableSort(KeyedByCloseness(done.suggestions))), 5),
     raised |-> IF done.raised THEN "ZeroDivisionError" ELSE "",
     rows |-> done.rows, calls |-> done.calls, work |-> done.work]

suggest_for_target(pl, st, tm, target_player_id, target) ==
    suggest_result(
        suggest_loop(pl, st, tm, target_player_id, player_value(target),
                     get_team(pl, tm),
                     [suggestions |-> <<>>, rows |-> <<>>, calls |-> 0,
                      work |-> [value_calls |-> 1,
                                reads |-> 2 + analysis_reads(target)],
                      raised |-> FALSE]))

\* suggest_trades_for_player(target_player_id): the list it returns (ret) or
\* the exception that leaves it (raised), the rows its evaluations appended,
\* the number of evaluate_trade calls it made, its work.
suggest_trades_for_player(pl, st, tm, target_player_id) ==
    IF target_player_id \notin DOMAIN pl
    THEN [ret |-> <<>>, raised |-> "", rows |-> <<>>, calls |-> 0,
          work |-> [value_calls |-> 0, reads |-> 1]]
    ELSE suggest_for_target(pl, st, tm, target_player_id,
                            get_player_analysis(pl, st, target_player_id))

\* acc after results.append(evaluation)
batch_added(acc, ev) ==
    [results |-> Append(acc.results, ev.ret),
     rows |-> acc.rows \o ev.rows,
     calls |-> acc.calls + (IF ev.validated THEN 1 ELSE 0),
     work |-> AddWork(acc.work, ev.work)]

\* The loop of batch_evaluate_trades.
RECURSIVE batch_loop(_, _, _, _, _)
batch_loop(pl, st, tm, scenarios, acc) ==
    IF scenarios = <<>> THEN acc
    ELSE batch_loop(pl, st, tm, Tail(scenarios),
                    batch_added(acc, evaluate_trade(pl, st, tm, Head(scenarios)[1],
                                                    Head(scenarios)[2], TRUE)))

\* key=lambda x: x.get('value_difference', 0), reverse=True: reverse keeps the
\* order of equal keys, so the sort is ascending in -key.
RECURSIVE KeyedByGain(_)
KeyedByGain(results) ==
    IF results = <<>> THEN <<>>
    ELSE <<[key |-> IF "value_difference" \in DOMAIN Head(results)
                    THEN -Head(results).value_difference ELSE 0,
            item |-> Head(results)]>> \o KeyedByGain(Tail(results))

batch_result(done) ==
    [ret |-> Items(StableSort(KeyedByGain(done.results))), rows |-> done.rows,
     calls |-> done.calls, work |-> done.work]

batch_evaluate_trades(pl, st, tm, trade_scenarios) ==
    batch_result(batch_loop(pl, st, tm, trade_scenarios,
                            [results |-> <<>>, rows |-> <<>>, calls |-> 0,
                             work |-> NoWork]))

(***************************************************************************)
(* PlayerAnalyzer.get_breakout_candidates                                  *)
(***************************************************************************)
\* A filter on the slope alone.
breakout_qualifies_any_trend(trend, min_trend) == trend.trend_value >= min_trend

\* if trend == "improving" and trend_value >= min_trend
breakout_qualifies(trend, min_trend) ==
    trend.trend = "improving" /\ trend.trend_value >= min_trend

\* candidates after the body of the loop for one player.
breakout_seen(st, candidates, player, min_trend, trend, stats) ==
    IF breakout_qualifies(trend, min_trend) /\ Len(stats) >= MIN_GAMES_PLAYED
    THEN Append(candidates,
                [player |-> player, trend_value |-> trend.trend_value,
                 avg_points |-> calculate_average_points(st, player.player_id),
                 recent_games |-> Len(stats)])
    ELSE candidates

RECURSIVE breakout_loop(_, _, _, _)
breakout_loop(st, all_players, min_trend, candidates) ==
    IF all_players = <<>> THEN candidates
    ELSE breakout_loop(st, Tail(all_players), min_trend,
            breakout_seen(st, candidates, Head(all_players), min_trend,
                          calculate_trend(st, Head(all_players).player_id),
                          get_player_stats(st, Head(all_players).player_id,
                                           WEEKS_TO_ANALYZE)))

\* key=lambda x: x['trend_value'], reverse=True
RECURSIVE KeyedByTrend(_)
KeyedByTrend(candidates) ==
    IF candidates = <<>> THEN <<>>
    ELSE <<[key |-> -Head(candidates).trend_value, item |-> Head(candidates)]>>
            \o KeyedByTrend(Tail(candidates))

get_breakout_candidates(pl, st, position, min_trend) ==
    Take(Items(StableSort(KeyedByTrend(
            breakout_loop(st, get_all_players(pl, position), min_trend, <<>>)))), 20)

(***************************************************************************)
(* TradeRecommender.find_upgrade_opportunities                             *)
(***************************************************************************)
\* positions = [position] if position else ['QB', 'RB', 'WR', 'TE']
positions_searched(position) ==
    IF position = "" THEN <<"QB", "RB", "WR", "TE">> ELSE <<position>>

\* weakest_value = float('inf'), weakest_player = None
NoWeakest == [found |-> FALSE, value |-> 0, player |-> NoPlayer]

\* if value < weakest_value: weakest_value, weakest_player = value, player
weaker_of(weakest, player, value) ==
    IF ~weakest.found \/ value < weakest.value
    THEN [found |-> TRUE, value |-> value, player |-> player]
    ELSE weakest

RECURSIVE weakest_of(_, _, _, _)
weakest_of(pl, st, my_players, weakest) ==
    IF my_players = <<>> THEN weakest
    ELSE weakest_of(pl, st, Tail(my_players),
            weaker_of(weakest, Head(my_players),
                      calculate_player_value(pl, st, Head(my_players).player_id)))

\* available_value > weakest_value * 1.2
significantly_better(available_value, weakest_value) ==
    5 * available_value > 6 * weakest_value

\* opportunities after the body of the inner loop for one available player.
upgrade_seen(opportunities, tm, pos, weakest, available, available_value, analysis) ==
    IF available.player_id \in tm THEN opportunities
    ELSE IF /\ significantly_better(available_value, weakest.value)
            /\ ~HasError(analysis)
            /\ analysis.games_played >= 2
    THEN Append(opportunities,
                [position |-> pos, upgrade_from |-> weakest.player,
                 upgrade_to |-> available,
                 value_gain |-> available_value - weakest.value,
                 target_analysis |-> analysis])
    ELSE opportunities

RECURSIVE upgrade_loop(_, _, _, _, _, _, _)
upgrade_loop(pl, st, tm, pos, weakest, all_players, opportunities) ==
    IF all_players = <<>> THEN opportunities
    ELSE upgrade_loop(pl, st, tm, pos, weakest, Tail(all_players),
            upgrade_seen(opportunities, tm, pos, weakest, Head(all_players),
                calculate_player_value(pl, st, Head(all_players).player_id),
                get_player_analysis(pl, st, Head(all_players).player_id)))

\* The body of the outer loop for one position.
upgrade_at(pl, st, tm, pos, my_players, opportunities) ==
    IF my_players = <<>> THEN opportunities
    ELSE upgrade_loop(pl, st, tm, pos, weakest_of(pl, st, my_players, NoWeakest),
                      get_all_players(pl, pos), opportunities)

RECURSIVE upgrade_positions(_, _, _, _, _, _)
upgrade_positions(pl, st, tm, my_team_rows, positions, opportunities) ==
    IF positions = <<>> THEN opportunities
    ELSE upgrade_positions(pl, st, tm, my_team_rows, Tail(positions),
            upgrade_at(pl, st, tm, Head(positions),
                       PlayersAt(my_team_rows, Head(positions)), opportunities))

\* key=lambda x: x['value_gain'], reverse=True
RECURSIVE KeyedByValueGain(_)
KeyedByValueGain(opportunities) ==
    IF opportunities = <<>> THEN <<>>
    ELSE <<[key |-> -Head(opportunities).value_gain, item |-> Head(opportunities)]>>
            \o KeyedByValueGain(Tail(opportunities))

find_upgrade_opportunities(pl, st, tm, position) ==
    Take(Items(StableSort(KeyedByValueGain(
            upgrade_positions(pl, st, tm \cap DOMAIN pl, get_team(pl, tm),
                              positions_searched(position), <<>>)))), 10)

(***************************************************************************)
(* PlayerAnalyzer.get_sell_high_candidates                                 *)
(***************************************************************************)
\* The test on the averages alone.
sell_high_qualifies_any_trend(analysis) ==
    5 * analysis.recent_avg > 6 * analysis.earlier_avg

\* recent_avg > earlier_avg * 1.2 and trend in ["declining", "stable"]
sell_high_qualifies(analysis) ==
    /\ 5 * analysis.recent_avg > 6 * analysis.earlier_avg
    /\ analysis.trend \in {"declining", "stable"}

\* candidates after the body of the loop for one player.
sell_high_seen(candidates, player, analysis) ==
    IF HasError(analysis) THEN candidates
    ELSE IF sell_high_qualifies(analysis)
    THEN Append(candidates,
                [player |-> player, avg_points |-> analysis.avg_points,
                 recent_avg |-> analysis.recent_avg,
                 earlier_avg |-> analysis.earlier_avg,
                 spike |-> analysis.recent_avg - analysis.earlier_avg])
    ELSE candidates

RECURSIVE sell_high_loop(_, _, _, _)
sell_high_loop(pl, st, all_players, candidates) ==
    IF all_players = <<>> THEN candidates
    ELSE sell_high_loop(pl, st, Tail(all_players),
            sell_high_seen(candidates, Head(all_players),
                           get_player_analysis(pl, st, Head(all_players).player_id)))

\* key=lambda x: x['spike'], reverse=True
RECURSIVE KeyedBySpike(_)
KeyedBySpike(candidates) ==
    IF candidates = <<>> THEN <<>>
    ELSE <<[key |-> -Head(candidates).spike, item |-> Head(candidates)]>>
            \o KeyedBySpike(Tail(candidates))

get_sell_high_candidates(pl, st, position) ==
    Take(Items(StableSort(KeyedBySpike(
            sell_high_loop(pl, st, get_all_players(pl, position), <<>>)))), 15)

(***************************************************************************)
(* Writes.                                                                 *)
(***************************************************************************)
\* The row the VALUES clause of upsert_player_stats describes.
stat_line(player_id, week, season, stats) ==
    [player_id |-> player_id, week |-> week, season |-> season,
     passing_yards |-> Get(stats, "passing_yards"),
     passing_tds |-> Get(stats, "passing_tds"),
     interceptions |-> Get(stats, "interceptions"),
     rushing_yards |-> Get(stats, "rushing_yards"),
     rushing_tds |-> Get(stats, "rushing_tds"),
     receptions |-> Get(stats, "receptions"),
     receiving_yards |-> Get(stats, "receiving_yards"),
     receiving_tds |-> Get(stats, "receiving_tds"),
     fumbles |-> Get(stats, "fumbles"),
     fantasy_points |-> Get(stats, "fantasy_points")]

SameKey(r, player_id, week, season) ==
    r.player_id = player_id /\ r.week = week /\ r.season = season

\* An INSERT with no ON CONFLICT clause into a table with no UNIQUE constraint.
upsert_player_stats_appending(st, player_id, week, season, stats) ==
    st \cup {stat_line(player_id, week, season, stats)}

\* An upsert whose DO UPDATE adds the new points to the stored ones.
upsert_player_stats_accumulating(st, player_id, week, season, stats) ==
    {r \in st : ~SameKey(r, player_id, week, season)}
        \cup {[stat_line(player_id, week, season, stats) EXCEPT
                    !.fantasy_points = @ + SumSeq(Points(
                        OrderNewestFirst({r \in st : SameKey(r, player_id, week, season)})))]}

\* INSERT ... ON CONFLICT(player_id, week, season) DO UPDATE SET every count
\* and fantasy_points to the excluded (new) values.
upsert_player_stats(st, player_id, week, season, stats) ==
    {r \in st : ~SameKey(r, player_id, week, season)}
        \cup {stat_line(player_id, week, season, stats)}

(***************************************************************************)
(* Ingestion (src/src/data_fetcher.py, src/src/csv_importer.py).  REAL     *)
(* columns (yards, fantasy points) are in hundredths, INTEGER columns in   *)
(* units; a sum of points before round(points, 2) is in ten-thousandths.   *)
(***************************************************************************)
\* NFLDataFetcher.calculate_fantasy_points(stats, scoring)
calculate_fantasy_points(stats, scoring) ==
    RoundDiv(Get(stats, "passing_yards") * 4
             + Get(stats, "passing_tds") * 40000
             - Get(stats, "interceptions") * 20000
             + Get(stats, "rushing_yards") * 10
             + Get(stats, "rushing_tds") * 60000
             + Get(stats, "receiving_yards") * 10
             + Get(stats, "receiving_tds") * 60000
             + (IF scoring = "PPR" THEN Get(stats, "receptions") * 10000
                ELSE IF scoring = "Half-PPR" THEN Get(stats, "receptions") * 5000
                ELSE 0)
             - Get(stats, "fumbles") * 20000, 100)

\* A formula that gives a reception 1 point under every mode but "Standard".
_calculate_fantasy_points_full_bonus(stats, scoring) ==
    RoundDiv(Get(stats, "passing_yards") * 4
             + Get(stats, "passing_tds") * 40000
             - Get(stats, "interceptions") * 20000
             + Get(stats, "rushing_yards") * 10
             + Get(stats, "rushing_tds") * 60000
             + Get(stats, "receiving_yards") * 10
             + Get(stats, "receiving_tds") * 60000
             + (IF scoring = "Standard" THEN 0
                ELSE Get(stats, "receptions") * 10000)
             - Get(stats, "fumbles") * 20000, 100)

\* CSVImporter._calculate_fantasy_points(stats), with config.SCORING_FORMAT
_calculate_fantasy_points(stats, scoring) ==
    RoundDiv(Get(stats, "passing_yards") * 4
             + Get(stats, "passing_tds") * 40000
             - Get(stats, "interceptions") * 20000
             + Get(stats, "rushing_yards") * 10
             + Get(stats, "rushing_tds") * 60000
             + Get(stats, "receiving_yards") * 10
             + Get(stats, "receiving_tds") * 60000
             + (IF scoring = "PPR" THEN Get(stats, "receptions") * 10000
                ELSE IF scoring = "Half-PPR" THEN Get(stats, "receptions") * 5000
                ELSE 0)
             - Get(stats, "fumbles") * 20000, 100)

\* stats_dict of update_weekly_stats: the feed's counts under the column names.
feed_stats_dict(stats, fantasy_points) ==
    [passing_yards |-> Get(stats, "pass_yd"),
     passing_tds |-> Get(stats, "pass_td"),
     interceptions |-> Get(stats, "pass_int"),
     rushing_yards |-> Get(stats, "rush_yd"),
     rushing_tds |-> Get(stats, "rush_td"),
     receptions |-> Get(stats, "rec"),
     receiving_yards |-> Get(stats, "rec_yd"),
     receiving_tds |-> Get(stats, "rec_td"),
     fumbles |-> Get(stats, "fum_lost"),
     fantasy_points |-> fantasy_points]

\* acc after one upsert of an ingestion loop; given: the points came with the line.
ingested(acc, player_id, week, season, stats, given) ==
    [st |-> upsert_player_stats(acc.st, player_id, week, season, stats),
     written |-> acc.written \cup {[player_id |-> player_id, week |-> week,
                                    season |-> season, given |-> given,
                                    fantasy_points |-> stats.fantasy_points]},
     count |-> acc.count + 1]

\* update_weekly_stats(week), lines 197-222: the loop over stats_data.items(),
\* a sequence of [player_id, stats]; the points are computed from the feed's
\* own dictionary; season is self.current_season.
RECURSIVE update_weekly_stats(_, _, _, _, _, _)
update_weekly_stats(pl, stats_data, week, season, scoring, acc) ==
    IF stats_data = <<>> THEN acc
    ELSE IF get_player_by_id(pl, Head(stats_data).player_id) = NoPlayer
    THEN update_weekly_stats(pl, Tail(stats_data), week, season, scoring, acc)
    ELSE update_weekly_stats(pl, Tail(stats_data), week, season, scoring,
            ingested(acc, Head(stats_data).player_id, week, season,
                     feed_stats_dict(Head(stats_data).stats,
                                     calculate_fantasy_points(Head(stats_data).stats,
                                                              scoring)),
                     FALSE))

\* float(text) of the numerals the model's files hold, in hundredths.
float_of_text ==
    ("0" :> 0) @@ ("1" :> 100) @@ ("2" :> 200) @@ ("3" :> 300) @@ ("250" :> 25000)
    @@ ("12.3" :> 1230) @@ ("18.5" :> 1850) @@ ("2023" :> 202300) @@ ("2024" :> 202400)

\* float(row.get(key, 0))
float_cell(row, key) == IF key \in DOMAIN row THEN float_of_text[row[key]] ELSE 0

\* int(row.get(key, default)), for the whole numerals
int_cell(row, key, default) ==
    IF key \in DOMAIN row THEN float_of_text[row[key]] \div 100 ELSE default

\* Lines 73-83: the stats dictionary of a row.
csv_stats(row) ==
    [passing_yards |-> float_cell(row, "passing_yards"),
     passing_tds |-> int_cell(row, "passing_tds", 0),
     interceptions |-> int_cell(row, "interceptions", 0),
     rushing_yards |-> float_cell(row, "rushing_yards"),
     rushing_tds |-> int_cell(row, "rushing_tds", 0),
     receptions |-> int_cell(row, "receptions", 0),
     receiving_yards |-> float_cell(row, "receiving_yards"),
     receiving_tds |-> int_cell(row, "receiving_tds", 0),
     fumbles |-> int_cell(row, "fumbles", 0)]

\* 'fantasy_points' in row and row['fantasy_points']
points_given(row) == "fantasy_points" \in DOMAIN row /\ row.fantasy_points # ""

\* Lines 85-89: the dictionary with its points.
csv_stats_with_points(row, stats, scoring) ==
    stats @@ [fantasy_points |-> IF points_given(row)
                                 THEN float_of_text[row.fantasy_points]
                                 ELSE _calculate_fantasy_points(stats, scoring)]

\* import_stats_csv(filepath, week, season), lines 59-92: the loop over the
\* rows of the file; week, season are 0 for None.
RECURSIVE import_stats_csv(_, _, _, _, _, _)
import_stats_csv(pl, rows, week, season, scoring, acc) ==
    IF rows = <<>> THEN acc
    ELSE IF "player_id" \notin DOMAIN Head(rows) \/ Head(rows).player_id = ""
              \/ get_player_by_id(pl, Head(rows).player_id) = NoPlayer
    THEN import_stats_csv(pl, Tail(rows), week, season, scoring, acc)
    ELSE import_stats_csv(pl, Tail(rows), week, season, scoring,
            ingested(acc, Head(rows).player_id,
                     int_cell(Head(rows), "week", IF week # 0 THEN week ELSE 1),
                     int_cell(Head(rows), "season", IF season # 0 THEN season ELSE 2024),
                     csv_stats_with_points(Head(rows), csv_stats(Head(rows)), scoring),
                     points_given(Head(rows))))

\* INSERT INTO players ... ON CONFLICT(player_id) DO UPDATE SET name, team,
\* position: the row of player_id is written, the others are kept.  No
\* modelled operation reads the team column, so the row holds name and position.
upsert_player(pl, player_id, name, team, position) ==
    [id \in DOMAIN pl \cup {player_id} |->
        IF id = player_id THEN [name |-> name, position |-> position] ELSE pl[id]]

\* dict.get(key, default) of a text field.
GetText(d, key, default) == IF key \in DOMAIN d THEN d[key] ELSE default

\* f"{first_name} {last_name}".strip(), for the names of the model.
full_name(first_name, last_name) ==
    CASE first_name = "" -> last_name
      [] last_name = "" -> first_name
      [] first_name = "Pat" /\ last_name = "Mahomes" -> "Pat Mahomes"
      [] OTHER -> "Josh Allen"

\* The body of the loop of update_player_database for one item of the feed.
sync_player(acc, player_id, player_info, position, name) ==
    IF GetText(player_info, "status", "None") # "Active" THEN acc
    ELSE IF position \notin {"QB", "RB", "WR", "TE", "K", "DEF"} THEN acc
    ELSE IF name = "" THEN acc
    ELSE [pl |-> upsert_player(acc.pl, player_id, name,
                               GetText(player_info, "team", "FA"), position),
          count |-> acc.count + 1]

RECURSIVE sync_loop(_, _)
sync_loop(acc, items) ==
    IF items = <<>> THEN acc
    ELSE sync_loop(sync_player(acc, Head(items).player_id, Head(items).info,
                               GetText(Head(items).info, "position", "N/A"),
                               full_name(GetText(Head(items).info, "first_name", ""),
                                         GetText(Head(items).info, "last_name", ""))),
                   Tail(items))

\* NFLDataFetcher.update_player_database: players_data is what
\* fetch_players_from_sleeper returned, {} (here <<>>) when the fetch failed.
update_player_database(pl, players_data) ==
    IF players_data = <<>> THEN [pl |-> pl, count |-> 0]
    ELSE sync_loop([pl |-> pl, count |-> 0], players_data)

\* str.strip() of the cells of the model.
strip(text) ==
    CASE text = " QB " -> "QB"
      [] text = " " -> ""
      [] OTHER -> text

\* The body of the loop of import_players_csv for one row.
import_player_row(acc, player_id, name, team, position) ==
    IF player_id # "" /\ name # "" /\ position # ""
    THEN [pl |-> upsert_player(acc.pl, player_id, name, team, position),
          count |-> acc.count + 1]
    ELSE acc

RECURSIVE import_players_csv(_, _)
import_players_csv(acc, rows) ==
    IF rows = <<>> THEN acc
    ELSE import_players_csv(
            import_player_row(acc, strip(GetText(Head(rows), "player_id", "")),
                              strip(GetText(Head(rows), "name", "")),
                              strip(GetText(Head(rows), "team", "FA")),
                              strip(GetText(Head(rows), "position", ""))),
            Tail(rows))

(***************************************************************************)
(* scheduler.py: run_scheduler and daily_refresh.  An exception is an      *)
(* instance of Exception (a database error, a malformed feed); the fetches *)
(* catch their own and return nothing (data_fetcher.py:49-59, 149-160).    *)
(***************************************************************************)
\* A refresh begins: by run_pending (scheduled) or at start-up; prev is the
\* refresh before it.
start_refresh(prev, scheduled) ==
    [pc |-> "refreshing", done |-> <<>>, failed |-> FALSE, fetch_failed |-> FALSE,
     scheduled |-> scheduled, after_failure |-> prev.failed]

\* A daily_refresh with no try/except: what the refresh raises leaves it, and
\* with it run_scheduler.
daily_refresh_uncaught(call, raised) ==
    [call EXCEPT !.pc = IF raised THEN "stopped" ELSE "waiting", !.failed = raised]

\* daily_refresh, lines 14-20: full_data_refresh ended, or raised and the
\* except clause printed the error; either way daily_refresh returns to the
\* loop of run_scheduler.
daily_refresh(call, raised) ==
    [call EXCEPT !.pc = "waiting", !.failed = raised]

\* update_player_database inside a refresh; raise_after >= 0: an exception is
\* raised while the item after the first raise_after ones is handled (each
\* upsert_player before it is committed).
refresh_players(pl, players_data, raise_after) ==
    IF raise_after < 0 THEN update_player_database(pl, players_data).pl
    ELSE update_player_database(pl, Take(players_data, raise_after)).pl

\* update_all_recent_weeks(num_weeks): update_weekly_stats(week) for the weeks
\* max(1, current_week - num_weeks + 1) .. current_week, in order; feed_of[week]
\* is what fetch_sleeper_stats returns for the week; raise_at: the week whose
\* update raises before its first write, 0 for none.
RECURSIVE update_weeks(_, _, _, _, _, _, _, _)
update_weeks(pl, st, week, current_week, feed_of, season, scoring, raise_at) ==
    IF week > current_week THEN [st |-> st, raised |-> FALSE]
    ELSE IF week = raise_at THEN [st |-> st, raised |-> TRUE]
    ELSE update_weeks(pl,
            update_weekly_stats(pl, feed_of[week], week, season, scoring,
                                [st |-> st, written |-> {}, count |-> 0]).st,
            week + 1, current_week, feed_of, season, scoring, raise_at)

update_all_recent_weeks(pl, st, num_weeks, current_week, feed_of, season, scoring, raise_at) ==
    update_weeks(pl, st, Max2(1, current_week - num_weeks + 1), current_week,
                 feed_of, season, scoring, raise_at)

\* An INSERT OR REPLACE INTO my_team: it succeeds for a rostered player too.
add_to_my_team_replacing(tm, player_id) ==
    [success |-> TRUE, team |-> tm \cup {player_id}]

\* INSERT INTO my_team: IntegrityError (PRIMARY KEY) gives False.
add_to_my_team(tm, player_id) ==
    IF player_id \in tm THEN [success |-> FALSE, team |-> tm]
    ELSE [success |-> TRUE, team |-> tm \cup {player_id}]

\* DELETE FROM my_team WHERE player_id = ?; rowcount > 0
remove_from_my_team(tm, player_id) ==
    [success |-> player_id \in tm, team |-> tm \ {player_id}]

\* TeamManager.add_player
add_player(pl, tm, player_id) ==
    LET player == get_player_by_id(pl, player_id)
        team == get_team(pl, tm)
        position_count == CountAt(team, player.position)
        max_allowed == limit_of(player.position)
        added == add_to_my_team(tm, player_id)
    IN  IF player = NoPlayer
        THEN [ret |-> [success |-> FALSE, message |-> [text |-> "Player not found"]],
              team |-> tm]
        ELSE IF position_count >= max_allowed
        THEN [ret |-> [success |-> FALSE,
                       message |-> [text |-> "Position limit reached",
                                    max_allowed |-> max_allowed,
                                    position |-> player.position]],
              team |-> tm]
        ELSE IF added.success
        THEN [ret |-> [success |-> TRUE,
                       message |-> [text |-> "Added", name |-> player.name,
                                    position |-> player.position]],
              team |-> added.team]
        ELSE [ret |-> [success |-> FALSE,
                       message |-> [text |-> "Player already on your team"]],
              team |-> added.team]

\* TeamManager.add_player as two steps of one caller.  Lines 18-32: the call
\* reads the player and the roster and checks the limit; it returns there or
\* goes on with what it read.  on_roster and raced are history fields: whether
\* the player was on the roster the call read, and the players of the calls
\* that had passed their check and not yet inserted at that moment.
add_player_check(pl, tm, player_id, raced) ==
    LET player == get_player_by_id(pl, player_id)
        team == get_team(pl, tm)
        position_count == CountAt(team, player.position)
        max_allowed == limit_of(player.position)
    IN  IF player = NoPlayer
        THEN [pc |-> "returned", player_id |-> player_id, checked |-> FALSE,
              ret |-> [success |-> FALSE, message |-> [text |-> "Player not found"]]]
        ELSE IF position_count >= max_allowed
        THEN [pc |-> "returned", player_id |-> player_id, checked |-> FALSE,
              ret |-> [success |-> FALSE,
                       message |-> [text |-> "Position limit reached",
                                    max_allowed |-> max_allowed,
                                    position |-> player.position]]]
        ELSE [pc |-> "checked", player_id |-> player_id, checked |-> TRUE,
              player |-> player, position_count |-> position_count,
              max_allowed |-> max_allowed, on_roster |-> player_id \in tm,
              raced |-> raced]

\* An insert step that takes the count again, under the lock of the write.
add_player_insert_rechecked(pl, tm, call) ==
    LET r == add_player(pl, tm, call.player_id)
    IN  [call |-> [call EXCEPT !.pc = "returned"] @@ [ret |-> r.ret], team |-> r.team]

\* Lines 34-45: the INSERT into the roster as it is now, and the return.
add_player_insert(pl, tm, call) ==
    LET added == add_to_my_team(tm, call.player_id)
    IN  [call |-> [call EXCEPT !.pc = "returned"] @@
                  [ret |-> IF added.success
                           THEN [success |-> TRUE,
                                 message |-> [text |-> "Added",
                                              name |-> call.player.name,
                                              position |-> call.player.position]]
                           ELSE [success |-> FALSE,
                                 message |-> [text |-> "Player already on your team"]]],
         team |-> added.team]

\* TeamManager.remove_player
remove_player(pl, tm, player_id) ==
    LET player == get_player_by_id(pl, player_id)
        removed == remove_from_my_team(tm, player_id)
    IN  IF player = NoPlayer
        THEN [ret |-> [success |-> FALSE, message |-> [text |-> "Player not found"]],
              team |-> tm]
        ELSE IF removed.success
        THEN [ret |-> [success |-> TRUE,
                       message |-> [text |-> "Removed", name |-> player.name]],
              team |-> removed.team]
        ELSE [ret |-> [success |-> FALSE,
                       message |-> [text |-> "Player not on your team"]],
              team |-> removed.team]

(***************************************************************************)
(* Actions: one per operation.  result is what the last call returned, with *)
(* the call's name and arguments; work and evaluations are history         *)
(* variables: the valuation work of the last recommender call, and the     *)
(* number of evaluate_trade calls so far that passed the validation.       *)
(***************************************************************************)
EvaluateTrade(players_out, players_in) ==
    \E ev \in {evaluate_trade(players, player_stats, my_team,
                              players_out, players_in, TRUE)} :
        /\ Len(trade_history) + Len(ev.rows) <= MaxHistory
        /\ trade_history' = trade_history \o ev.rows
        /\ result' = [op |-> "evaluate_trade", players_out |-> players_out,
                      players_in |-> players_in, write_failed |-> FALSE,
                      ret |-> ev.ret]
        /\ work' = ev.work
        /\ evaluations' = evaluations + (IF ev.validated THEN 1 ELSE 0)
        /\ UNCHANGED <<players, player_stats, my_team, pending, scoring_format>>

\* evaluate_trade when the INSERT of save_trade_analysis raises.
EvaluateTradeWriteFails(players_out, players_in) ==
    \E ev \in {evaluate_trade(players, player_stats, my_team,
                              players_out, players_in, FALSE)} :
        /\ ev.validated
        /\ evaluations < MaxHistory
        /\ trade_history' = trade_history \o ev.rows
        /\ result' = [op |-> "evaluate_trade", players_out |-> players_out,
                      players_in |-> players_in, write_failed |-> TRUE,
                      ret |-> ev.ret]
        /\ work' = ev.work
        /\ evaluations' = evaluations + 1
        /\ UNCHANGED <<players, player_stats, my_team, pending, scoring_format>>

SuggestTrades(target_player_id) ==
    \E sg \in {suggest_trades_for_player(players, player_stats, my_team,
                                           target_player_id)} :
        /\ Len(trade_history) + Len(sg.rows) <= MaxHistory
        /\ trade_history' = trade_history \o sg.rows
        /\ result' = [op |-> "suggest_trades_for_player",
                      target_player_id |-> target_player_id, ret |-> sg.ret,
                      raised |-> sg.raised]
        /\ work' = sg.work
        /\ evaluations' = evaluations + sg.calls
        /\ UNCHANGED <<players, player_stats, my_team, pending, scoring_format>>

BatchEvaluate(trade_scenarios) ==
    \E bt \in {batch_evaluate_trades(players, player_stats, my_team,
                                       trade_scenarios)} :
        /\ Len(trade_history) + Len(bt.rows) <= MaxHistory
        /\ trade_history' = trade_history \o bt.rows
        /\ result' = [op |-> "batch_evaluate_trades",
                      trade_scenarios |-> trade_scenarios, ret |-> bt.ret]
        /\ work' = bt.work
        /\ evaluations' = evaluations + bt.calls
        /\ UNCHANGED <<players, player_stats, my_team, pending, scoring_format>>

AddPlayer(player_id) ==
    \E r \in {add_player(players, my_team, player_id)} :
        /\ my_team' = r.team
        /\ result' = [op |-> "add_player", player_id |-> player_id, ret |-> r.ret]
        /\ UNCHANGED <<players, player_stats, trade_history, work, evaluations, pending, scoring_format>>

\* A caller enters add_player and runs it up to the limit check.
AddPlayerRead(c, player_id) ==
    \E call \in {add_player_check(players, my_team, player_id,
                                   {pending[d].player_id :
                                        d \in {e \in Callers : pending[e].pc = "checked"}})} :
        /\ pending[c].pc # "checked"
        /\ pending' = [pending EXCEPT ![c] = call]
        /\ result' = IF call.pc = "returned"
                     THEN [op |-> "add_player", player_id |-> player_id,
                           ret |-> call.ret]
                     ELSE result
        /\ UNCHANGED <<players, player_stats, my_team, trade_history, work, evaluations, scoring_format>>

\* A caller past the limit check runs the INSERT and returns.
AddPlayerInsert(c) ==
    /\ pending[c].pc = "checked"
    /\ \E r \in {add_player_insert(players, my_team, pending[c])} :
        /\ my_team' = r.team
        /\ pending' = [pending EXCEPT ![c] = r.call]
        /\ result' = [op |-> "add_player", player_id |-> pending[c].player_id,
                      ret |-> r.call.ret]
        /\ UNCHANGED <<players, player_stats, trade_history, work, evaluations, scoring_format>>

RemovePlayer(player_id) ==
    \E r \in {remove_player(players, my_team, player_id)} :
        /\ my_team' = r.team
        /\ result' = [op |-> "remove_player", player_id |-> player_id, ret |-> r.ret]
        /\ UNCHANGED <<players, player_stats, trade_history, work, evaluations, pending, scoring_format>>

UpsertStats(player_id, week, season, stats) ==
    /\ player_stats' = upsert_player_stats(player_stats, player_id, week, season,
                                           stats)
    /\ result' = [op |-> "upsert_player_stats", player_id |-> player_id,
                  week |-> week, season |-> season, stats |-> stats,
                  replaced |-> {r \in player_stats :
                                    SameKey(r, player_id, week, season)}]
    /\ UNCHANGED <<players, my_team, trade_history, work, evaluations, pending, scoring_format>>

UpdateWeeklyStats(stats_data, week, season) ==
    \E done \in {update_weekly_stats(players, stats_data, week, season, scoring_format,
                                      [st |-> player_stats, written |-> {},
                                       count |-> 0])} :
        /\ player_stats' = done.st
        /\ result' = [op |-> "update_weekly_stats", week |-> week,
                      written |-> done.written, count |-> done.count]
        /\ UNCHANGED <<players, my_team, trade_history, work, evaluations, pending, scoring_format>>

ImportStatsCsv(rows, week, season) ==
    \E done \in {import_stats_csv(players, rows, week, season, scoring_format,
                                   [st |-> player_stats, written |-> {},
                                    count |-> 0])} :
        /\ player_stats' = done.st
        /\ result' = [op |-> "import_stats_csv", ret |-> done.count,
                      written |-> done.written]
        /\ UNCHANGED <<players, my_team, trade_history, work, evaluations, pending, scoring_format>>

CalculatePlayerValue(player_id) ==
    /\ result' = [op |-> "calculate_player_value", player_id |-> player_id,
                  ret |-> calculate_player_value(players, player_stats, player_id)]
    /\ UNCHANGED <<players, player_stats, my_team, trade_history, work, evaluations, pending, scoring_format>>

CalculateConsistency(player_id) ==
    /\ result' = [op |-> "calculate_consistency", player_id |-> player_id,
                  ret |-> calculate_consistency(player_stats, player_id)]
    /\ UNCHANGED <<players, player_stats, my_team, trade_history, work, evaluations, pending, scoring_format>>

CalculateTrend(player_id) ==
    /\ result' = [op |-> "calculate_trend", player_id |-> player_id,
                  ret |-> calculate_trend(player_stats, player_id)]
    /\ UNCHANGED <<players, player_stats, my_team, trade_history, work, evaluations, pending, scoring_format>>

\* weeks = 0 is weeks = None: the query has no LIMIT.
GetPlayerStats(player_id, weeks) ==
    /\ result' = [op |-> "get_player_stats", player_id |-> player_id,
                  weeks |-> weeks,
                  ret |-> get_player_stats(player_stats, player_id, weeks)]
    /\ UNCHANGED <<players, player_stats, my_team, trade_history, work, evaluations, pending, scoring_format>>

GetBreakoutCandidates(position, min_trend) ==
    /\ result' = [op |-> "get_breakout_candidates", position |-> position,
                  min_trend |-> min_trend,
                  ret |-> get_breakout_candidates(players, player_stats, position,
                                                  min_trend)]
    /\ UNCHANGED <<players, player_stats, my_team, trade_history, work, evaluations, pending, scoring_format>>

GetSellHighCandidates(position) ==
    /\ result' = [op |-> "get_sell_high_candidates", position |-> position,
                  ret |-> get_sell_high_candidates(players, player_stats, position)]
    /\ UNCHANGED <<players, player_stats, my_team, trade_history, work, evaluations, pending, scoring_format>>

FindUpgradeOpportunities(position) ==
    /\ result' = [op |-> "find_upgrade_opportunities", position |-> position,
                  ret |-> find_upgrade_opportunities(players, player_stats, my_team,
                                                     position)]
    /\ UNCHANGED <<players, player_stats, my_team, trade_history, work, evaluations, pending, scoring_format>>

UpdatePlayerDatabase(players_data) ==
    /\ players' = update_player_database(players, players_data).pl
    /\ result' = [op |-> "update_player_database",
                  count |-> update_player_database(players, players_data).count]
    /\ UNCHANGED <<player_stats, my_team, trade_history, work, evaluations, pending, scoring_format>>

ImportPlayersCsv(rows) ==
    /\ players' = import_players_csv([pl |-> players, count |-> 0], rows).pl
    /\ result' = [op |-> "import_players_csv",
                  ret |-> import_players_csv([pl |-> players, count |-> 0], rows).count]
    /\ UNCHANGED <<player_stats, my_team, trade_history, work, evaluations, pending, scoring_format>>

CalculateFantasyPoints(stats, scoring) ==
    /\ result' = [op |-> "calculate_fantasy_points", stats |-> stats,
                  scoring |-> scoring,
                  ret |-> calculate_fantasy_points(stats, scoring)]
    /\ UNCHANGED <<players, player_stats, my_team, trade_history, work, evaluations, pending, scoring_format>>

\* CSVImporter._calculate_fantasy_points(stats): the mode is config.SCORING_FORMAT.
CsvCalculateFantasyPoints(stats) ==
    /\ result' = [op |-> "_calculate_fantasy_points", stats |-> stats,
                  scoring |-> scoring_format,
                  ret |-> _calculate_fantasy_points(stats, scoring_format)]
    /\ UNCHANGED <<players, player_stats, my_team, trade_history, work, evaluations, pending, scoring_format>>

UpsertPlayer(player_id, name, team, position) ==
    /\ players' = upsert_player(players, player_id, name, team, position)
    /\ result' = [op |-> "upsert_player", player_id |-> player_id, name |-> name,
                  team |-> team, position |-> position]
    /\ UNCHANGED <<player_stats, my_team, trade_history, work, evaluations, pending, scoring_format>>

GetPlayerAnalysis(player_id) ==
    /\ result' = [op |-> "get_player_analysis", player_id |-> player_id,
                  ret |-> get_player_analysis(players, player_stats, player_id)]
    /\ UNCHANGED <<players, player_stats, my_team, trade_history, work, evaluations, pending, scoring_format>>

\* A caller enters get_player_analysis and reads the player and the window.
AnalysisBegin(c, player_id) ==
    \E call \in {analysis_begin(players, player_stats, player_id,
                                get_player_by_id(players, player_id),
                                get_player_stats(player_stats, player_id,
                                                 WEEKS_TO_ANALYZE))} :
        /\ pending[c].pc = "idle"
        /\ pending' = [pending EXCEPT ![c] = IF call.pc = "returned" THEN Idle
                                              ELSE call]
        /\ result' = IF call.pc = "returned"
                     THEN [op |-> "get_player_analysis", player_id |-> player_id,
                           ret |-> call.ret]
                     ELSE result
        /\ UNCHANGED <<players, player_stats, my_team, trade_history, work, evaluations, scoring_format>>

AnalysisAverage(c) ==
    /\ pending[c].pc = "window_read"
    /\ pending' = [pending EXCEPT ![c] = analysis_average(player_stats, pending[c])]
    /\ UNCHANGED <<players, player_stats, my_team, trade_history, result, work, evaluations, scoring_format>>

AnalysisConsistency(c) ==
    /\ pending[c].pc = "average_read"
    /\ pending' = [pending EXCEPT ![c] = analysis_consistency(player_stats, pending[c])]
    /\ UNCHANGED <<players, player_stats, my_team, trade_history, result, work, evaluations, scoring_format>>

AnalysisTrend(c) ==
    /\ pending[c].pc = "consistency_read"
    /\ result' = [op |-> "get_player_analysis", player_id |-> pending[c].player_id,
                  ret |-> analysis_trend(player_stats, pending[c])]
    /\ pending' = [pending EXCEPT ![c] = Idle]
    /\ UNCHANGED <<players, player_stats, my_team, trade_history, work, evaluations, scoring_format>>

\* run_scheduler: the job is scheduled and daily_refresh is called at once.
RunScheduler(c) ==
    /\ pending[c].pc = "idle"
    /\ pending' = [pending EXCEPT ![c] = start_refresh([failed |-> FALSE], FALSE)]
    /\ UNCHANGED <<players, player_stats, my_team, trade_history, result, work, evaluations, scoring_format>>

\* full_data_refresh, line 245: self.update_player_database()
RefreshPlayers(c, players_data, raise_after) ==
    /\ pending[c].pc = "refreshing"
    /\ pending[c].done = <<>>
    /\ raise_after < Len(players_data)
    /\ players' = refresh_players(players, players_data, raise_after)
    /\ pending' = [pending EXCEPT ![c] =
                    IF raise_after >= 0
                    THEN daily_refresh([@ EXCEPT !.done = <<"players">>], TRUE)
                    ELSE [@ EXCEPT !.done = <<"players">>,
                                   !.fetch_failed = (players_data = <<>>)]]
    /\ UNCHANGED <<player_stats, my_team, trade_history, result, work, evaluations, scoring_format>>

\* full_data_refresh, lines 248-251: update_all_recent_weeks, and the return.
RefreshStats(c, current_week, feed_of, season, raise_at) ==
    /\ pending[c].pc = "refreshing"
    /\ pending[c].done = <<"players">>
    /\ player_stats' = update_all_recent_weeks(players, player_stats,
                            WEEKS_TO_ANALYZE, current_week, feed_of, season,
                            scoring_format, raise_at).st
    /\ pending' = [pending EXCEPT ![c] =
                    daily_refresh([@ EXCEPT !.done = <<"players", "stats">>],
                        update_all_recent_weeks(players, player_stats,
                            WEEKS_TO_ANALYZE, current_week, feed_of, season,
                            scoring_format, raise_at).raised)]
    /\ UNCHANGED <<players, my_team, trade_history, result, work, evaluations, scoring_format>>

\* The loop of run_scheduler: run_pending finds the job due and calls
\* daily_refresh.  A pass that finds no job due sleeps and changes nothing.
RunPending(c) ==
    /\ pending[c].pc = "waiting"
    /\ pending' = [pending EXCEPT ![c] = start_refresh(@, TRUE)]
    /\ UNCHANGED <<players, player_stats, my_team, trade_history, result, work, evaluations, scoring_format>>

ComparePlayers(player_id1, player_id2) ==
    /\ result' = [op |-> "compare_players", player_id1 |-> player_id1,
                  player_id2 |-> player_id2,
                  ret |-> compare_players(players, player_stats,
                                          player_id1, player_id2)]
    /\ UNCHANGED <<players, player_stats, my_team, trade_history, work, evaluations, pending, scoring_format>>

(***************************************************************************)
(* The stores the specifications start from.                               *)
(***************************************************************************)
\* The rows of a newest-first window of points: weeks Len(w) down to 1.
WindowRows(player_id, w) ==
    {stat_line(player_id, Len(w) + 1 - i, 2024, [fantasy_points |-> w[i]]) :
        i \in 1..Len(w)}

\* p1, p2 quarterbacks, p3 a running back; p4..p6 are unknown identifiers.
TradePlayers ==
    [id \in {"p1", "p2", "p3"} |->
        [name |-> id, position |-> IF id = "p3" THEN "RB" ELSE "QB"]]

\* Windows of two equal games are worth 0.8 * points: 2500 is worth 20.00,
\* 2875 23.00 (+15%), 2625 21.00 (+5%), 2375 19.00 (-5%), 2125 17.00 (-15%).
TradeWindows ==
    {<<>>, <<2500, 2500>>, <<2875, 2875>>, <<2625, 2625>>, <<2375, 2375>>,
     <<2125, 2125>>, <<3000, 1000, 2000>>, <<900>>}

TradeRosters == {{}, {"p1", "p3"}}

InitStores(stats, rosters) ==
    /\ players = TradePlayers
    /\ player_stats \in stats
    /\ my_team \in rosters
    /\ trade_history = <<>>
    /\ result = [op |-> "none"]
    /\ work = NoWork
    /\ evaluations = 0
    /\ pending = NoPending
    /\ scoring_format = "PPR"

(***************************************************************************)
(* Spec: the recommender over a store where p1 is worth 20.00, p2 23.00,   *)
(* p3 has no stats and p6 is unknown.                                      *)
(***************************************************************************)
TradeLists == {<<>>, <<"p1">>, <<"p2", "p6">>}

TradeTargets == {"p2", "p3", "p6"}

BatchInputs ==
    {<<>>,
     << <<<<"p1">>, <<"p2">>>>, <<<<>>, <<"p1">>>> >>,
     << <<<<"p1">>, <<"p2">>>>, <<<<"p2">>, <<"p1">>>> >>}

InitTrade ==
    InitStores({WindowRows("p1", <<2500, 2500>>) \cup WindowRows("p2", <<2875, 2875>>)},
               TradeRosters)

NextTrade ==
    \/ \E players_out \in TradeLists, players_in \in TradeLists :
            EvaluateTrade(players_out, players_in)
    \/ \E target_player_id \in TradeTargets : SuggestTrades(target_player_id)
    \/ \E trade_scenarios \in BatchInputs : BatchEvaluate(trade_scenarios)

Spec == InitTrade /\ [][NextTrade]_vars

(***************************************************************************)
(* SpecStorageFailure: Spec, and the INSERT of the audit row may raise     *)
(* (the INSERT is reached only when both sides are given).                 *)
(***************************************************************************)
NextStorageFailure ==
    \/ NextTrade
    \/ \E players_out \in TradeLists \ {<<>>}, players_in \in TradeLists \ {<<>>} :
            EvaluateTradeWriteFails(players_out, players_in)

SpecStorageFailure == InitTrade /\ [][NextStorageFailure]_vars

(***************************************************************************)
(* SpecLabels: evaluate_trade between p1, worth 20.00, and p2, whose       *)
(* window is any of TradeWindows.                                          *)
(***************************************************************************)
LabelLists == {<<"p1">>, <<"p2">>}

InitLabels ==
    InitStores({WindowRows("p1", <<2500, 2500>>) \cup WindowRows("p2", w) :
                    w \in TradeWindows},
               {{}})

NextLabels ==
    \E players_out \in LabelLists, players_in \in LabelLists :
        EvaluateTrade(players_out, players_in)

SpecLabels == InitLabels /\ [][NextLabels]_vars

(***************************************************************************)
(* SpecAnalysis: the analyzer while the stats of p1 are ingested; p2 has   *)
(* two games, p3 none, p6 is unknown.                                      *)
(***************************************************************************)
AnalysisIds == {"p1", "p2", "p3", "p6"}

InitAnalysis == InitStores({WindowRows("p2", <<1000, 2000>>)}, {{}})

NextAnalysis ==
    \/ \E week \in 1..MaxWeek, season \in Seasons, fantasy_points \in PointVals :
            UpsertStats("p1", week, season, [fantasy_points |-> fantasy_points])
    \/ \E player_id \in AnalysisIds : GetPlayerAnalysis(player_id)
    \/ \E player_id1 \in AnalysisIds, player_id2 \in AnalysisIds :
            ComparePlayers(player_id1, player_id2)

SpecAnalysis == InitAnalysis /\ [][NextAnalysis]_vars

(***************************************************************************)
(* SpecRoster: add_player and remove_player from an empty roster.  The     *)
(* players table holds one player more than the limit at one position;     *)
(* the other known players have a position ROSTER_LIMITS does not list.    *)
(***************************************************************************)
RosterIds == <<"p1", "p2", "p3", "p4", "p5">>

RosterTable(position) ==
    [id \in {RosterIds[i] : i \in 1..Len(RosterIds)} |->
        [name |-> id,
         position |-> IF \E i \in 1..(ROSTER_LIMITS[position] + 1) : RosterIds[i] = id
                      THEN position ELSE "LB"]]

InitRoster ==
    /\ players \in {RosterTable(position) : position \in DOMAIN ROSTER_LIMITS}
    /\ player_stats = {}
    /\ my_team = {}
    /\ trade_history = <<>>
    /\ result = [op |-> "none"]
    /\ work = NoWork
    /\ evaluations = 0
    /\ pending = NoPending
    /\ scoring_format = "PPR"

NextRoster ==
    \/ \E player_id \in Ids : AddPlayer(player_id)
    \/ \E player_id \in Ids : RemovePlayer(player_id)

SpecRoster == InitRoster /\ [][NextRoster]_vars

(***************************************************************************)
(* SpecRosterRace: two callers of add_player on one store, a step of one   *)
(* caller at a time; nothing removes a player.  The players table holds    *)
(* kickers (limit 1) or quarterbacks (limit 2).                            *)
(***************************************************************************)
InitRosterRace ==
    /\ players \in {RosterTable("K"), RosterTable("QB")}
    /\ player_stats = {}
    /\ my_team = {}
    /\ trade_history = <<>>
    /\ result = [op |-> "none"]
    /\ work = NoWork
    /\ evaluations = 0
    /\ pending = NoPending
    /\ scoring_format = "PPR"

NextRosterRace ==
    \/ \E c \in Callers, player_id \in Ids : AddPlayerRead(c, player_id)
    \/ \E c \in Callers : AddPlayerInsert(c)

SpecRosterRace == InitRosterRace /\ [][NextRosterRace]_vars

(***************************************************************************)
(* SpecStore: the stat store while lines of p1 are written for weeks 1, 2  *)
(* of seasons 2023 and 2024; p2 has two lines of 2024, p3 none.  REAL      *)
(* columns (yards, points) are in hundredths, INTEGER columns in units.    *)
(***************************************************************************)
StoreSeasons == {2023, 2024}

StoreWeeks == {1, 2}

\* Stat dictionaries handed to upsert_player_stats: a passing game, a rushing
\* game worth 2.00 less, a game of turnovers only (negative points), a
\* dictionary with no key.
StoreLines ==
    {[passing_yards |-> 25000, passing_tds |-> 2, fantasy_points |-> 1800],
     [rushing_yards |-> 10000, rushing_tds |-> 1, fantasy_points |-> 1600],
     [interceptions |-> 2, fumbles |-> 1, fantasy_points |-> -600],
     <<>>}

InitStore == InitStores({WindowRows("p2", <<1000, 2000>>)}, {{}})

NextStore ==
    \/ \E week \in StoreWeeks, season \in StoreSeasons, stats \in StoreLines :
            UpsertStats("p1", week, season, stats)
    \/ \E player_id \in AnalysisIds : CalculatePlayerValue(player_id)
    \/ \E player_id \in AnalysisIds : CalculateConsistency(player_id)
    \/ \E player_id \in AnalysisIds : CalculateTrend(player_id)
    \/ \E player_id \in AnalysisIds : GetPlayerAnalysis(player_id)
    \/ \E player_id \in {"p1", "p6"}, weeks \in 0..3 : GetPlayerStats(player_id, weeks)

SpecStore == InitStore /\ [][NextStore]_vars

(***************************************************************************)
(* SpecIngest: the two ingestion paths under each scoring format.  p6 is   *)
(* an unknown identifier; every row of a file has its count cells filled   *)
(* with numerals, and no file holds a key twice.                           *)
(***************************************************************************)
ScoringFormats == {"PPR", "Half-PPR", "Standard"}

\* Fetched feeds: stats_data.items() in order.
Feeds ==
    {<< [player_id |-> "p1", stats |-> [pass_yd |-> 25000, pass_td |-> 2, pass_int |-> 1]],
        [player_id |-> "p6", stats |-> [rush_yd |-> 1000]] >>,
     << [player_id |-> "p1", stats |-> [rec |-> 3, rec_yd |-> 1230, fum_lost |-> 1]] >>,
     << [player_id |-> "p3", stats |-> <<>>] >>,
     <<>>}

\* Files: the rows csv.DictReader yields, cells as text.
CsvFiles ==
    {<< [player_id |-> "p1", week |-> "1", season |-> "2024", passing_yards |-> "250",
         passing_tds |-> "2", fantasy_points |-> "18.5"] >>,
     << [player_id |-> "p1", week |-> "2", season |-> "2023", receptions |-> "3",
         receiving_yards |-> "12.3", fantasy_points |-> ""],
        [player_id |-> "p6", week |-> "1", season |-> "2024", fumbles |-> "1"],
        [player_id |-> "", week |-> "1", season |-> "2024"] >>,
     << [player_id |-> "p3", rushing_yards |-> "250", fumbles |-> "1"] >>}

InitIngest ==
    /\ players = TradePlayers
    /\ player_stats = WindowRows("p2", <<1000, 2000>>)
    /\ my_team = {}
    /\ trade_history = <<>>
    /\ result = [op |-> "none"]
    /\ work = NoWork
    /\ evaluations = 0
    /\ pending = NoPending
    /\ scoring_format \in ScoringFormats

NextIngest ==
    \/ \E stats_data \in Feeds, week \in StoreWeeks :
            UpdateWeeklyStats(stats_data, week, 2024)
    \/ \E rows \in CsvFiles, week \in {0, 2}, season \in {0, 2023} :
            ImportStatsCsv(rows, week, season)

SpecIngest == InitIngest /\ [][NextIngest]_vars

(***************************************************************************)
(* SpecScreens: the breakout screen over 22 players with two games each    *)
(* (n01..n11 quarterbacks, n12..n22 running backs) while the stats of the  *)
(* quarterback p1 are ingested.  Twenty of the 22 rise by 3.00 to 5.00 a   *)
(* week, n05 rises by 2.50, n09 is level.                                  *)
(***************************************************************************)
ScreenNames ==
    <<"n01", "n02", "n03", "n04", "n05", "n06", "n07", "n08", "n09", "n10", "n11",
      "n12", "n13", "n14", "n15", "n16", "n17", "n18", "n19", "n20", "n21", "n22">>

ScreenPlayers ==
    [id \in {ScreenNames[i] : i \in 1..Len(ScreenNames)} \cup {"p1"} |->
        [name |-> id,
         position |-> IF id = "p1" \/ \E i \in 1..11 : ScreenNames[i] = id
                      THEN "QB" ELSE "RB"]]

\* The rise of the i-th player from week 1 to week 2, in hundredths.
ScreenRise(i) ==
    IF i = 5 THEN 250 ELSE IF i = 9 THEN 0 ELSE 300 + 100 * (i % 3)

ScreenStats ==
    UNION {WindowRows(ScreenNames[i], <<1000 + ScreenRise(i), 1000>>) :
                i \in 1..Len(ScreenNames)}

\* A second store: three games each, the last two s above the first, newest
\* first; s is 2.50 to 4.00 (slope s/2, stable) but 1.00 for n05 and 5.00
\* (improving) for n09.
SellRise(i) ==
    IF i = 5 THEN 100 ELSE IF i = 9 THEN 500 ELSE 250 + 50 * (i % 4)

SellStats ==
    UNION {WindowRows(ScreenNames[i],
                      <<1000 + SellRise(i), 1000 + SellRise(i), 1000>>) :
                i \in 1..Len(ScreenNames)}

\* min_trend of the calls: 3.0 is the default.
ScreenMinTrends == {0, 250, 300}

InitScreens ==
    /\ players = ScreenPlayers
    /\ player_stats = ScreenStats
    /\ my_team = {}
    /\ trade_history = <<>>
    /\ result = [op |-> "none"]
    /\ work = NoWork
    /\ evaluations = 0
    /\ pending = NoPending
    /\ scoring_format = "PPR"

NextScreens ==
    \/ \E week \in 1..MaxWeek, season \in Seasons, fantasy_points \in PointVals :
            UpsertStats("p1", week, season, [fantasy_points |-> fantasy_points])
    \/ \E position \in {"", "QB", "RB"}, min_trend \in ScreenMinTrends :
            GetBreakoutCandidates(position, min_trend)

SpecScreens == InitScreens /\ [][NextScreens]_vars

\* The sell-high screen over the second store, while lines of p1 arrive.
InitSellHigh ==
    /\ players = ScreenPlayers
    /\ player_stats = SellStats
    /\ my_team = {}
    /\ trade_history = <<>>
    /\ result = [op |-> "none"]
    /\ work = NoWork
    /\ evaluations = 0
    /\ pending = NoPending
    /\ scoring_format = "PPR"

NextSellHigh ==
    \/ \E week \in 1..MaxWeek, season \in Seasons, fantasy_points \in PointVals :
            UpsertStats("p1", week, season, [fantasy_points |-> fantasy_points])
    \/ \E position \in {"", "QB", "RB"} : GetSellHighCandidates(position)

SpecSellHigh == InitSellHigh /\ [][NextSellHigh]_vars

(***************************************************************************)
(* The upgrade search: the 23 players of the screens, each n with two      *)
(* equal games of 10.00 to 14.00 points (worth 8.00 to 11.20), a roster of *)
(* one quarterback and one running back, lines of p1 arriving.             *)
(***************************************************************************)
UpgradeStats ==
    UNION {WindowRows(ScreenNames[i],
                      <<1000 + 100 * (i % 5), 1000 + 100 * (i % 5)>>) :
                i \in 1..Len(ScreenNames)}

UpgradeRosters == {{"p1", "n12"}, {"n01", "n13"}}

UpgradePoints == {1000, 3000}

InitUpgrades ==
    /\ players = ScreenPlayers
    /\ player_stats = UpgradeStats
    /\ my_team \in UpgradeRosters
    /\ trade_history = <<>>
    /\ result = [op |-> "none"]
    /\ work = NoWork
    /\ evaluations = 0
    /\ pending = NoPending
    /\ scoring_format = "PPR"

NextUpgrades ==
    \/ \E week \in 1..MaxWeek, season \in Seasons, fantasy_points \in UpgradePoints :
            UpsertStats("p1", week, season, [fantasy_points |-> fantasy_points])
    \/ \E position \in {"", "QB", "RB", "K"} : FindUpgradeOpportunities(position)

SpecUpgrades == InitUpgrades /\ [][NextUpgrades]_vars

(***************************************************************************)
(* SpecImpact: trades of p1 or p3 for p2, p3 or both by a roster of p1 and  *)
(* p3 (or an empty one),                                                   *)
(* where p1 has two games of 25.00 points or a single one of 9.00.         *)
(***************************************************************************)
ImpactStores ==
    {WindowRows("p1", w) \cup WindowRows("p2", <<2875, 2875>>) :
        w \in {<<2500, 2500>>, <<900>>}}

ImpactOut == {<<"p1">>, <<"p3">>}

ImpactIn == {<<"p2">>, <<"p3">>, <<"p2", "p3">>}

InitImpact == InitStores(ImpactStores, TradeRosters)

NextImpact ==
    \E players_out \in ImpactOut, players_in \in ImpactIn :
        EvaluateTrade(players_out, players_in)

SpecImpact == InitImpact /\ [][NextImpact]_vars

(***************************************************************************)
(* SpecPlayers: the players table, empty at first, under player syncs and  *)
(* CSV player imports.                                                     *)
(***************************************************************************)
\* Items of the Sleeper feed: an active quarterback, the same player as a
\* running back, an inactive player, a linebacker, a player without names
\* and one without a position.
FeedItems ==
    {[player_id |-> "p1", info |-> [status |-> "Active", position |-> "QB",
                                    first_name |-> "Pat", last_name |-> "Mahomes",
                                    team |-> "KC"]],
     [player_id |-> "p1", info |-> [status |-> "Active", position |-> "RB",
                                    first_name |-> "Pat", last_name |-> "Mahomes"]],
     [player_id |-> "p2", info |-> [status |-> "Inactive", position |-> "QB",
                                    first_name |-> "Josh", last_name |-> "Allen"]],
     [player_id |-> "p3", info |-> [status |-> "Active", position |-> "LB",
                                    first_name |-> "Josh", last_name |-> "Allen"]],
     [player_id |-> "p4", info |-> [status |-> "Active", position |-> "K"]],
     [player_id |-> "p5", info |-> [status |-> "Active", first_name |-> "Josh",
                                    last_name |-> "Allen"]],
     [player_id |-> "p2", info |-> [status |-> "Active", position |-> "DEF",
                                    first_name |-> "", last_name |-> "Allen"]]}

PlayerFeeds ==
    {<<>>} \cup {<<a>> : a \in FeedItems}
           \cup {<<a, b>> : a \in FeedItems, b \in FeedItems}

\* Rows of a players CSV: padded cells, a row without name, one without
\* position, a kicker, a linebacker.
PlayerRows ==
    {[player_id |-> "p1", name |-> "Pat Mahomes", team |-> "KC", position |-> " QB "],
     [player_id |-> "p2", name |-> "Josh Allen", position |-> "WR"],
     [player_id |-> "p3", name |-> " ", team |-> "KC", position |-> "TE"],
     [player_id |-> "p4", name |-> "Josh Allen", team |-> "KC", position |-> " "],
     [player_id |-> "p3", name |-> "Josh Allen", team |-> "KC", position |-> "K"],
     [player_id |-> "p5", name |-> "Josh Allen", team |-> "KC", position |-> "LB"]}

PlayerFiles ==
    {<<>>} \cup {<<a>> : a \in PlayerRows}
           \cup {<<a, b>> : a \in PlayerRows, b \in PlayerRows}

InitPlayers ==
    /\ players = [id \in {} |-> NoPlayer]
    /\ player_stats = {}
    /\ my_team = {}
    /\ trade_history = <<>>
    /\ result = [op |-> "none"]
    /\ work = NoWork
    /\ evaluations = 0
    /\ pending = NoPending
    /\ scoring_format = "PPR"

NextPlayers ==
    \/ \E players_data \in PlayerFeeds : UpdatePlayerDatabase(players_data)
    \/ \E rows \in PlayerFiles : ImportPlayersCsv(rows)

SpecPlayers == InitPlayers /\ [][NextPlayers]_vars

(***************************************************************************)
(* SpecScoring: the two scoring functions on stat lines, under the three   *)
(* formats and a mode string that is none of them.                         *)
(***************************************************************************)
ScoringModes == ScoringFormats \cup {"ppr"}

\* Stat lines: no key, every count 0, two counts 0, a receiving game, a
\* passing game, turnovers only, a rushing game of 10.05 yards.
ScoringLines ==
    {<<>>,
     [passing_yards |-> 0, passing_tds |-> 0, interceptions |-> 0,
      rushing_yards |-> 0, rushing_tds |-> 0, receptions |-> 0,
      receiving_yards |-> 0, receiving_tds |-> 0, fumbles |-> 0],
     [receptions |-> 0, fumbles |-> 0],
     [receptions |-> 3, receiving_yards |-> 1230, receiving_tds |-> 1],
     [passing_yards |-> 25000, passing_tds |-> 2, interceptions |-> 1],
     [interceptions |-> 2, fumbles |-> 1],
     [rushing_yards |-> 1005, rushing_tds |-> 1, receptions |-> 1]}

InitScoring ==
    /\ players = TradePlayers
    /\ player_stats = {}
    /\ my_team = {}
    /\ trade_history = <<>>
    /\ result = [op |-> "none"]
    /\ work = NoWork
    /\ evaluations = 0
    /\ pending = NoPending
    /\ scoring_format \in ScoringModes

NextScoring ==
    \/ \E stats \in ScoringLines, scoring \in ScoringModes :
            CalculateFantasyPoints(stats, scoring)
    \/ \E stats \in ScoringLines : CsvCalculateFantasyPoints(stats)

SpecScoring == InitScoring /\ [][NextScoring]_vars

(***************************************************************************)
(* SpecResync: add_player and remove_player while player records are       *)
(* re-synced.  p1 is a kicker, p2 and p3 are quarterbacks, p6 is unknown;   *)
(* a re-sync writes p1 or p2 as a kicker or a quarterback.                 *)
(***************************************************************************)
ResyncTable ==
    [id \in {"p1", "p2", "p3"} |->
        [name |-> id, position |-> IF id = "p1" THEN "K" ELSE "QB"]]

ResyncIds == {"p1", "p2", "p3", "p6"}

InitResync ==
    /\ players = ResyncTable
    /\ player_stats = {}
    /\ my_team = {}
    /\ trade_history = <<>>
    /\ result = [op |-> "none"]
    /\ work = NoWork
    /\ evaluations = 0
    /\ pending = NoPending
    /\ scoring_format = "PPR"

NextResync ==
    \/ \E player_id \in ResyncIds : AddPlayer(player_id)
    \/ \E player_id \in ResyncIds : RemovePlayer(player_id)
    \/ \E player_id \in {"p1", "p2"}, position \in {"K", "QB"} :
            UpsertPlayer(player_id, player_id, "FA", position)

SpecResync == InitResync /\ [][NextResync]_vars

(***************************************************************************)
(* SpecAnalysisRace: a caller of get_player_analysis, read by read, while   *)
(* another process (the scheduler's refresh, a CSV import) writes lines of  *)
(* p1.  p1 starts with one game of 10.00 points; the lines written are      *)
(* worth 20.00.                                                             *)
(***************************************************************************)
RaceIds == {"p1", "p3", "p6"}

InitAnalysisRace == InitStores({WindowRows("p1", <<1000>>)}, {{}})

NextAnalysisRace ==
    \/ \E week \in 1..MaxWeek, season \in Seasons :
            UpsertStats("p1", week, season, [fantasy_points |-> 2000])
    \/ \E player_id \in RaceIds : AnalysisBegin("c1", player_id)
    \/ AnalysisAverage("c1")
    \/ AnalysisConsistency("c1")
    \/ AnalysisTrend("c1")

SpecAnalysisRace == InitAnalysisRace /\ [][NextAnalysisRace]_vars

(***************************************************************************)
(* SpecScheduler: the scheduler process c1 on an empty store, under each   *)
(* scoring format.  SpecSchedulerFair adds that the process keeps running  *)
(* and that the clock reaches the refresh time again.                      *)
(***************************************************************************)
\* What fetch_players_from_sleeper returns: nothing (the fetch failed), p1 as
\* a quarterback, p1 as a running back and a linebacker.
SchedulerPlayerFeeds ==
    {<<>>,
     <<[player_id |-> "p1", info |-> [status |-> "Active", position |-> "QB",
                                      first_name |-> "Pat", last_name |-> "Mahomes"]]>>,
     <<[player_id |-> "p1", info |-> [status |-> "Active", position |-> "RB",
                                      first_name |-> "Pat", last_name |-> "Mahomes"]],
       [player_id |-> "p3", info |-> [status |-> "Active", position |-> "LB",
                                      first_name |-> "Josh", last_name |-> "Allen"]]>>}

\* What fetch_sleeper_stats returns for a week: nothing, or a line of p1.
SchedulerStatFeeds ==
    {<<>>, <<[player_id |-> "p1", stats |-> [rec |-> 3, rec_yd |-> 1230]]>>}

InitScheduler ==
    /\ players = [id \in {} |-> NoPlayer]
    /\ player_stats = {}
    /\ my_team = {}
    /\ trade_history = <<>>
    /\ result = [op |-> "none"]
    /\ work = NoWork
    /\ evaluations = 0
    /\ pending = NoPending
    /\ scoring_format \in ScoringFormats

RefreshPlayersStep ==
    \E players_data \in SchedulerPlayerFeeds, raise_after \in -1..1 :
        RefreshPlayers("c1", players_data, raise_after)

RefreshStatsStep ==
    \E current_week \in 1..MaxWeek, feed_of \in [1..MaxWeek -> SchedulerStatFeeds],
       season \in Seasons, raise_at \in 0..MaxWeek :
        RefreshStats("c1", current_week, feed_of, season, raise_at)

NextScheduler ==
    \/ RunScheduler("c1")
    \/ RefreshPlayersStep
    \/ RefreshStatsStep
    \/ RunPending("c1")

SpecScheduler == InitScheduler /\ [][NextScheduler]_vars

SpecSchedulerFair ==
    /\ SpecScheduler
    /\ WF_vars(RefreshPlayersStep)
    /\ WF_vars(RefreshStatsStep)
    /\ WF_vars(RunPending("c1"))

(***************************************************************************)
(* Properties.                                                             *)
(***************************************************************************)
IsEvaluation == result.op = "evaluate_trade"

\* C1: evaluate_trade with an empty players_out or an empty players_in
\* returns the validation error before any valuation work: no player value is
\* computed, no player or roster data is read, and trade_history gets no entry.
C1_EmptySideRejectedBeforeWork ==
    [][(/\ result'.op = "evaluate_trade"
        /\ (result'.players_out = <<>> \/ result'.players_in = <<>>))
       => /\ result'.ret = [error |-> "Must specify players for both sides of trade"]
          /\ work'.value_calls = 0
          /\ work'.reads = 0
          /\ trade_history' = trade_history
          /\ evaluations' = evaluations]_vars

\* An empty received side is rejected after an earlier trade was recorded.
C1_Witness ==
    /\ IsEvaluation
    /\ result.players_out # <<>>
    /\ result.players_in = <<>>
    /\ "error" \in DOMAIN result.ret
    /\ Len(trade_history) > 0

\* percent_change > t for the values a returned evaluation reports
\* (percent_change is 0 when value_giving is 0).
PercentAbove(ret, t) ==
    IF ret.value_giving > 0
    THEN 100 * (ret.value_receiving - ret.value_giving) > t * ret.value_giving
    ELSE 0 > t

PercentIs(ret, t) ==
    /\ ret.value_giving > 0
    /\ 100 * (ret.value_receiving - ret.value_giving) = t * ret.value_giving

\* C2: for non-empty lists the label follows percent_change with exclusive
\* boundaries taken top-down: > 15 STRONG ACCEPT, else > 5 ACCEPT, else > -5
\* FAIR TRADE, else > -15 DECLINE, else STRONG DECLINE; exactly 15, 5, -5 and
\* -15 give ACCEPT, FAIR TRADE, DECLINE and STRONG DECLINE.
C2_LabelByExclusiveThresholds ==
    (IsEvaluation /\ result.players_out # <<>> /\ result.players_in # <<>>) =>
        /\ result.ret.recommendation =
            (IF PercentAbove(result.ret, 15) THEN "STRONG ACCEPT"
             ELSE IF PercentAbove(result.ret, 5) THEN "ACCEPT"
             ELSE IF PercentAbove(result.ret, -5) THEN "FAIR TRADE"
             ELSE IF PercentAbove(result.ret, -15) THEN "DECLINE"
             ELSE "STRONG DECLINE")
        /\ PercentIs(result.ret, 15) => result.ret.recommendation = "ACCEPT"
        /\ PercentIs(result.ret, 5) => result.ret.recommendation = "FAIR TRADE"
        /\ PercentIs(result.ret, -5) => result.ret.recommendation = "DECLINE"
        /\ PercentIs(result.ret, -15) => result.ret.recommendation = "STRONG DECLINE"

\* 20.00 given for 23.00: percent_change is exactly 15 and the label is ACCEPT.
C2_Witness ==
    /\ IsEvaluation
    /\ "recommendation" \in DOMAIN result.ret
    /\ PercentIs(result.ret, 15)
    /\ result.ret.percent_change = 1500
    /\ result.ret.recommendation = "ACCEPT"

\* C3: whenever the summed value of the given players is 0, for any received
\* value, percent_change is 0 and the label is FAIR TRADE; nothing is raised.
C3_ZeroGivenValueIsNeutral ==
    (/\ IsEvaluation
     /\ result.players_out # <<>> /\ result.players_in # <<>>
     /\ SumValues(valuations(players, player_stats, result.players_out)) = 0)
    => /\ "raised" \notin DOMAIN result.ret
       /\ result.ret.value_giving = 0
       /\ result.ret.percent_change = 0
       /\ result.ret.recommendation = "FAIR TRADE"

\* A player without stats (value 0) is given for a player worth 20.00.
C3_Witness ==
    /\ IsEvaluation
    /\ "recommendation" \in DOMAIN result.ret
    /\ result.ret.value_giving = 0
    /\ result.ret.value_receiving > 0
    /\ result.ret.recommendation = "FAIR TRADE"

IsAnalysis == result.op = "get_player_analysis"

\* C4: get_player_analysis has three outcomes: unknown identifier, the
\* not-found error without a player record; known player with an empty window,
\* the no-stats error with the player record; known player with at least one
\* stat line, a full analysis without an error field.
C4_ThreeOutcomes ==
    IsAnalysis =>
        IF result.player_id \notin DOMAIN players
        THEN /\ DOMAIN result.ret = {"error"}
             /\ result.ret.error = "Player not found"
        ELSE /\ "player" \in DOMAIN result.ret
             /\ result.ret.player =
                    [player_id |-> result.player_id,
                     name |-> players[result.player_id].name,
                     position |-> players[result.player_id].position]
             /\ IF {r \in player_stats : r.player_id = result.player_id} = {}
                THEN /\ "error" \in DOMAIN result.ret
                     /\ result.ret.error = "No stats available"
                ELSE /\ "error" \notin DOMAIN result.ret
                     /\ result.ret.games_played >= 1

\* p1 is analysed before any of its stats are ingested: the no-stats outcome.
C4_Witness ==
    /\ IsAnalysis
    /\ result.player_id = "p1"
    /\ "error" \in DOMAIN result.ret
    /\ "player" \in DOMAIN result.ret

IsComparison == result.op = "compare_players"

Unknown(player_id) == player_id \notin DOMAIN players

WithoutStats(player_id) ==
    /\ player_id \in DOMAIN players
    /\ {r \in player_stats : r.player_id = player_id} = {}

\* C5: the caller of compare_players can tell not-found from no-stats: the
\* result for a pair with an unknown identifier differs from the result for
\* any pair of known players of which one has no stats.
C5_ComparePlayersTellsApart ==
    (IsComparison /\ (Unknown(result.player_id1) \/ Unknown(result.player_id2))) =>
        \A a \in DOMAIN players, b \in DOMAIN players :
            (WithoutStats(a) \/ WithoutStats(b)) =>
                compare_players(players, player_stats, a, b) # result.ret

\* C6: in the no-stats result of get_player_analysis every derived numeric
\* field is present with value 0: average points, consistency, trend slope,
\* recent average, earlier average, games played, total points.
C6_NoStatsFieldsDefaultToZero ==
    (IsAnalysis /\ WithoutStats(result.player_id)) =>
        \A field \in {"avg_points", "consistency", "trend_value", "recent_avg",
                      "earlier_avg", "games_played", "total_points"} :
            /\ field \in DOMAIN result.ret
            /\ result.ret[field] = 0

\* C7: evaluate_trade with an identifier that is not in the players table
\* signals the not-found condition instead of returning a recommendation that
\* values the player as 0.
C7_UnknownIdSurfaced ==
    (/\ IsEvaluation
     /\ result.players_out # <<>> /\ result.players_in # <<>>
     /\ \E i \in 1..Len(result.players_out \o result.players_in) :
            Unknown((result.players_out \o result.players_in)[i]))
    => /\ "error" \in DOMAIN result.ret
       /\ "recommendation" \notin DOMAIN result.ret

\* The rows a step appended to trade_history.
Appended == SubSeq(trade_history', Len(trade_history) + 1, Len(trade_history'))

\* C8: every evaluate_trade that passes validation appends exactly one entry
\* holding the given set, the received set, the label and the value delta;
\* the log is append-only and its length is the number of validated
\* evaluations, those inside suggest_trades_for_player and
\* batch_evaluate_trades included.
C8_AuditLogAppendOnly ==
    /\ [](Len(trade_history) = evaluations)
    /\ [][/\ Len(trade_history') >= Len(trade_history)
          /\ SubSeq(trade_history', 1, Len(trade_history)) = trade_history
          /\ Len(Appended) = evaluations' - evaluations
          /\ (/\ result'.op = "evaluate_trade"
              /\ result'.players_out # <<>> /\ result'.players_in # <<>>)
             => Appended = <<[players_out |-> Join(result'.players_out),
                              players_in |-> Join(result'.players_in),
                              recommendation |-> result'.ret.recommendation,
                              value_difference |-> result'.ret.value_difference]>>
          /\ (result'.op = "suggest_trades_for_player" /\ result'.raised = "")
             => /\ Len(Appended) = Len(result'.ret)
                /\ \A i \in 1..Len(result'.ret) :
                     \E j \in 1..Len(Appended) :
                        /\ Appended[j].players_out
                                = <<result'.ret[i].your_player.player_id>>
                        /\ Appended[j].players_in = <<result'.target_player_id>>
                        /\ Appended[j].recommendation
                                = result'.ret[i].evaluation.recommendation
          /\ result'.op = "batch_evaluate_trades"
             => Len(Appended) = Len(SelectSeq(result'.trade_scenarios,
                                    LAMBDA sc : sc[1] # <<>> /\ sc[2] # <<>>))
         ]_vars

\* suggest_trades_for_player evaluated one trade itself, after an earlier one.
C8_Witness ==
    /\ result.op = "suggest_trades_for_player"
    /\ Len(result.ret) = 1
    /\ Len(trade_history) = 2
    /\ trade_history[2].players_out = <<"p1">>
    /\ trade_history[2].players_in = <<"p2">>
    /\ evaluations = 2

\* C9: when the write of save_trade_analysis raises, evaluate_trade still
\* returns its evaluation, with the recommendation and values it returns when
\* the write succeeds.
C9_AuditFailureDoesNotFailEvaluation ==
    (IsEvaluation /\ result.write_failed) =>
        /\ "recommendation" \in DOMAIN result.ret
        /\ result.ret = evaluate_trade(players, player_stats, my_team,
                                       result.players_out, result.players_in,
                                       TRUE).ret

\* The players of my_team at a position.
RosterAt(position) ==
    {id \in my_team \cap DOMAIN players : players[id].position = position}

\* C10: from an empty roster, after any add_player and remove_player calls,
\* the roster holds at most ROSTER_LIMITS[position] players of each position
\* (QB 2, RB 4, WR 4, TE 2, K 1, DEF 1) and none of a position ROSTER_LIMITS
\* does not list; add_player answers 'Position limit reached' whenever the
\* count at the player's position is at the limit.
C10_RosterWithinLimits ==
    /\ [](/\ my_team \subseteq DOMAIN players
          /\ \A id \in my_team : players[id].position \in DOMAIN ROSTER_LIMITS
          /\ Cardinality(RosterAt("QB")) <= 2
          /\ Cardinality(RosterAt("RB")) <= 4
          /\ Cardinality(RosterAt("WR")) <= 4
          /\ Cardinality(RosterAt("TE")) <= 2
          /\ Cardinality(RosterAt("K")) <= 1
          /\ Cardinality(RosterAt("DEF")) <= 1)
    /\ [][(/\ result'.op = "add_player"
           /\ result'.player_id \in DOMAIN players
           /\ LET position == players[result'.player_id].position
              IN  Cardinality(RosterAt(position)) >=
                    (IF position \in DOMAIN ROSTER_LIMITS
                     THEN ROSTER_LIMITS[position] ELSE 0))
          => /\ ~result'.ret.success
             /\ result'.ret.message.text = "Position limit reached"
             /\ my_team' = my_team]_vars

\* A fifth running back is refused while the roster holds four.
C10_Witness ==
    /\ result.op = "add_player"
    /\ result.ret.message.text = "Position limit reached"
    /\ result.ret.message.position = "RB"
    /\ Cardinality(RosterAt("RB")) = 4

(***************************************************************************)
(* C11.  The limit check and the INSERT of add_player are two steps.       *)
(***************************************************************************)
\* Both callers have returned from calls that passed the limit check for two
\* different players of one position, neither on the roster, each having
\* counted one player less than the limit, and d read the roster while c was
\* between its check and its INSERT.
ReadBeforeEitherInsert(c, d) ==
    /\ pending[c].pc = "returned" /\ pending[d].pc = "returned"
    /\ pending[c].checked /\ pending[d].checked
    /\ pending[c].player_id # pending[d].player_id
    /\ pending[c].player.position = pending[d].player.position
    /\ pending[c].position_count = pending[c].max_allowed - 1
    /\ pending[d].position_count = pending[d].max_allowed - 1
    /\ ~pending[c].on_roster /\ ~pending[d].on_roster
    /\ pending[c].player_id \in pending[d].raced

\* C11: when two add_player calls for two different players of one position
\* both read the roster, at one below the limit, before either inserts, both
\* calls succeed and the roster holds more players of the position than
\* ROSTER_LIMITS allows.
C11_InterleavedAddsExceedLimit ==
    \A c \in Callers, d \in Callers :
        ReadBeforeEitherInsert(c, d) =>
            /\ pending[c].ret.success /\ pending[d].ret.success
            /\ Cardinality(RosterAt(pending[c].player.position))
                    > ROSTER_LIMITS[pending[c].player.position]

\* Two interleaved calls for quarterbacks have returned: three are rostered.
C11_Witness ==
    /\ \E c \in Callers, d \in Callers : ReadBeforeEitherInsert(c, d)
    /\ Cardinality(RosterAt("QB")) = 3

(***************************************************************************)
(* C12.  One stat line per (player, week, season); upsert in place.        *)
(***************************************************************************)
UniqueKeys ==
    \A r \in player_stats, q \in player_stats :
        SameKey(r, q.player_id, q.week, q.season) => r = q

\* The step is the upsert_player_stats call result' describes.
IsUpsert == result'.op = "upsert_player_stats"

WrittenKey(r) == SameKey(r, result'.player_id, result'.week, result'.season)

\* C12: the store never holds two lines of one (player, week, season) key;
\* an upsert_player_stats call leaves one line of its key, holding every raw
\* count and the fantasy points of the call (0 for an absent one), leaves the
\* number of lines unchanged when the key was there, and leaves the lines of
\* every other key as they were.
C12_UpsertKeepsOneLinePerKey ==
    /\ []UniqueKeys
    /\ [][IsUpsert =>
            /\ \E r \in player_stats' :
                    /\ {q \in player_stats' : WrittenKey(q)} = {r}
                    /\ \A c \in DOMAIN result'.stats : r[c] = result'.stats[c]
                    /\ \A c \in DOMAIN r \ (DOMAIN result'.stats
                                \cup {"player_id", "week", "season"}) : r[c] = 0
            /\ (\E r \in player_stats : WrittenKey(r))
                    => Cardinality(player_stats') = Cardinality(player_stats)
            /\ {r \in player_stats' : ~WrittenKey(r)}
                    = {r \in player_stats : ~WrittenKey(r)}]_vars

\* A line of p1 was overwritten by a different one while other lines of p1
\* and of p2 are in the store.
C12_Witness ==
    /\ result.op = "upsert_player_stats"
    /\ result.replaced # {}
    /\ result.replaced \cap player_stats = {}
    /\ Cardinality(player_stats) >= 4

(***************************************************************************)
(* C13.  Re-ingesting an identical line changes no derived metric.         *)
(***************************************************************************)
\* The call res describes wrote the line its key already held.
SameLineAgain(res) ==
    /\ res.op = "upsert_player_stats"
    /\ res.replaced = {stat_line(res.player_id, res.week, res.season, res.stats)}

\* C13: an upsert_player_stats call with the line the store already holds for
\* that (player, week, season) key leaves calculate_average_points,
\* calculate_consistency and calculate_trend of every player unchanged.
C13_IdenticalLineKeepsMetrics ==
    [][SameLineAgain(result') =>
        \A id \in Ids :
            /\ calculate_average_points(player_stats', id)
                    = calculate_average_points(player_stats, id)
            /\ calculate_consistency(player_stats', id)
                    = calculate_consistency(player_stats, id)
            /\ calculate_trend(player_stats', id)
                    = calculate_trend(player_stats, id)]_vars

\* The passing game of p1 was ingested again; p1 has three lines or more, so
\* its average, consistency and trend are all computed from points.
C13_Witness ==
    /\ SameLineAgain(result)
    /\ result.stats = [passing_yards |-> 25000, passing_tds |-> 2,
                       fantasy_points |-> 1800]
    /\ Len(get_player_stats(player_stats, "p1", WEEKS_TO_ANALYZE)) >= 3
    /\ calculate_trend(player_stats, "p1").trend # "stable"

(***************************************************************************)
(* C14.  Stored fantasy points against the scoring of the stored counts.   *)
(***************************************************************************)
\* C14: every line the last update_weekly_stats or import_stats_csv call
\* stored holds the points calculate_fantasy_points gives for the raw counts
\* of that line under the configured scoring format, except a line whose
\* import row carried non-empty points, which holds those points.
C14_StoredPointsMatchScoring ==
    result.op \in {"update_weekly_stats", "import_stats_csv"} =>
        \A w \in result.written :
            \A r \in {q \in player_stats : SameKey(q, w.player_id, w.week, w.season)} :
                r.fantasy_points = IF w.given THEN w.fantasy_points
                                   ELSE calculate_fantasy_points(r, scoring_format)

(***************************************************************************)
(* C15.  calculate_player_value.                                           *)
(***************************************************************************)
IsValue == result.op = "calculate_player_value"

\* 50000 times the weighted sum 0.6*avg + 0.002*consistency*avg + 0.2*slope
\* of an analysis, in hundredths.
WeightedSum(analysis) ==
    30000 * analysis.avg_points + analysis.consistency * analysis.avg_points
        + 10000 * analysis.trend_value

\* v is x/50000 rounded to the nearest integer.
NearestTo(v, x) == 2 * Abs(50000 * v - x) <= 50000

\* C15: calculate_player_value returns 0 when the analysis is not-found or
\* no-stats, and max(0, 0.6*avg + 0.002*consistency*avg + 0.2*slope) rounded
\* to 2 decimals for a full analysis; it is never negative, whatever the
\* points and the slope of the history.
C15_ValueIsFlooredWeightedSum ==
    IsValue =>
        /\ result.ret >= 0
        /\ HasError(get_player_analysis(players, player_stats, result.player_id))
                => result.ret = 0
        /\ ~HasError(get_player_analysis(players, player_stats, result.player_id))
                => IF WeightedSum(get_player_analysis(players, player_stats,
                                                      result.player_id)) <= 0
                   THEN result.ret = 0
                   ELSE NearestTo(result.ret,
                                  WeightedSum(get_player_analysis(players, player_stats,
                                                                  result.player_id)))

\* p1 was valued with a full analysis whose weighted sum is below -1.00.
C15_Witness ==
    /\ IsValue
    /\ result.player_id = "p1"
    /\ ~HasError(get_player_analysis(players, player_stats, "p1"))
    /\ WeightedSum(get_player_analysis(players, player_stats, "p1")) < -5000000
    /\ result.ret = 0

(***************************************************************************)
(* C16.  The range of calculate_consistency.                               *)
(***************************************************************************)
\* The points of the window calculate_* reads for a player, newest first.
WindowPoints(player_id) ==
    Points(get_player_stats(player_stats, player_id, WEEKS_TO_ANALYZE))

\* C16: calculate_consistency returns a score from 0 to 100 for every window,
\* windows of negative points included, and exactly 100 for a window of two
\* or more equal non-zero points.
C16_ConsistencyWithinRange ==
    result.op = "calculate_consistency" =>
        /\ result.ret >= 0 /\ result.ret <= 10000
        /\ (/\ Len(WindowPoints(result.player_id)) >= 2
            /\ WindowPoints(result.player_id)[1] # 0
            /\ \A i \in 1..Len(WindowPoints(result.player_id)) :
                    WindowPoints(result.player_id)[i]
                        = WindowPoints(result.player_id)[1])
                => result.ret = 10000

(***************************************************************************)
(* C17.  calculate_trend.                                                  *)
(***************************************************************************)
\* Line q is of a later week than line r.
After(r, q) == q.season > r.season \/ (q.season = r.season /\ q.week > r.week)

\* The lines of a player with fewer than WEEKS_TO_ANALYZE later lines.
WindowOf(player_id) ==
    {r \in player_stats :
        /\ r.player_id = player_id
        /\ Cardinality({q \in player_stats : q.player_id = player_id /\ After(r, q)})
                < WEEKS_TO_ANALYZE}

\* The chronological index of a line in its window: 0 for the oldest.
IndexIn(W, r) == Cardinality({q \in W : After(q, r)})

RECURSIVE SumOver(_, _)
SumOver(f, S) ==
    IF S = {} THEN 0
    ELSE LET x == CHOOSE y \in S : TRUE
         IN  f[x] + SumOver(f, S \ {x})

\* The least-squares slope of points against index over a window, as the
\* fraction FitNum / FitDen.
FitNum(W) ==
    Cardinality(W) * SumOver([r \in W |-> IndexIn(W, r) * r.fantasy_points], W)
        - SumOver([r \in W |-> IndexIn(W, r)], W)
            * SumOver([r \in W |-> r.fantasy_points], W)

FitDen(W) ==
    Cardinality(W) * SumOver([r \in W |-> IndexIn(W, r) * IndexIn(W, r)], W)
        - SumOver([r \in W |-> IndexIn(W, r)], W) * SumOver([r \in W |-> IndexIn(W, r)], W)

\* ret is the classification and the rounded slope of the fit num / den.
ClassifiedAs(ret, num, den) ==
    /\ ret.trend \in {"improving", "declining", "stable"}
    /\ ret.trend = "improving" <=> num > 200 * den
    /\ ret.trend = "declining" <=> num < -200 * den
    /\ 2 * Abs(den * ret.trend_value - num) <= den

\* C17: calculate_trend returns ("insufficient_data", 0) for a window of
\* fewer than 2 lines; otherwise its slope is that of the least-squares line
\* over the window in chronological order (index 0 the oldest line), so a
\* window whose points rise toward the latest week has a positive slope, and
\* the label is improving iff slope > 2, declining iff slope < -2 and stable
\* otherwise, a slope of exactly 2 or -2 included.
C17_TrendIsChronologicalFit ==
    result.op = "calculate_trend" =>
        /\ Cardinality(WindowOf(result.player_id)) < 2
                => result.ret = [trend |-> "insufficient_data", trend_value |-> 0]
        /\ Cardinality(WindowOf(result.player_id)) >= 2
                => /\ ClassifiedAs(result.ret, FitNum(WindowOf(result.player_id)),
                                   FitDen(WindowOf(result.player_id)))
                   /\ (\A r \in WindowOf(result.player_id),
                          q \in WindowOf(result.player_id) :
                            After(r, q) => q.fantasy_points > r.fantasy_points)
                        => /\ FitNum(WindowOf(result.player_id)) > 0
                           /\ result.ret.trend_value > 0

\* The trend of p1 was computed over a window of slope exactly 2.00: stable.
C17_Witness ==
    /\ result.op = "calculate_trend"
    /\ result.player_id = "p1"
    /\ Cardinality(WindowOf("p1")) >= 2
    /\ FitNum(WindowOf("p1")) = 200 * FitDen(WindowOf("p1"))
    /\ result.ret = [trend |-> "stable", trend_value |-> 200]

(***************************************************************************)
(* C18.  recent_avg and earlier_avg of a full analysis.                    *)
(***************************************************************************)
\* C18: in a full analysis recent_avg is the mean of the first 2 entries of
\* the newest-first window (of the only entry when there is one), and
\* earlier_avg is the mean of the entries from index 2 on, or recent_avg when
\* the window has fewer than 3 entries; a window of a single line of p points
\* gives recent_avg = earlier_avg = p.
C18_RecentAndEarlierAverages ==
    (IsAnalysis /\ ~HasError(result.ret)) =>
        /\ result.ret.recent_avg = mean_points(Take(WindowPoints(result.player_id), 2))
        /\ result.ret.earlier_avg =
                IF Len(WindowPoints(result.player_id)) < 3 THEN result.ret.recent_avg
                ELSE mean_points(Drop(WindowPoints(result.player_id), 2))
        /\ Len(WindowPoints(result.player_id)) = 1
                => /\ result.ret.recent_avg = WindowPoints(result.player_id)[1]
                   /\ result.ret.earlier_avg = WindowPoints(result.player_id)[1]

(***************************************************************************)
(* C19.  The lookback window of get_player_stats.                          *)
(***************************************************************************)
\* C19: for a window size W >= 1, get_player_stats(player, W) returns at most
\* W lines, all of that player, exactly the player's lines with the greatest
\* (season, week) keys (those with fewer than W later lines), most recent
\* first: season descending, then week descending.
C19_WindowIsNewestLines ==
    (result.op = "get_player_stats" /\ result.weeks >= 1) =>
        /\ Len(result.ret) <= result.weeks
        /\ \A i \in 1..Len(result.ret) :
                result.ret[i] \in player_stats
                    /\ result.ret[i].player_id = result.player_id
        /\ {result.ret[i] : i \in 1..Len(result.ret)}
                = {r \in player_stats :
                      /\ r.player_id = result.player_id
                      /\ Cardinality({q \in player_stats :
                                        q.player_id = result.player_id /\ After(r, q)})
                            < result.weeks}
        /\ \A i \in 1..Len(result.ret), j \in 1..Len(result.ret) :
                i < j => /\ result.ret[i].season >= result.ret[j].season
                         /\ result.ret[i].season = result.ret[j].season
                                => result.ret[i].week > result.ret[j].week

\* p1 has lines in both weeks of both seasons and a window of 3 was read:
\* week 1 of 2023 is left out.
C19_Witness ==
    /\ result.op = "get_player_stats"
    /\ result.player_id = "p1"
    /\ result.weeks = 3
    /\ Cardinality({r \in player_stats : r.player_id = "p1"}) = 4
    /\ Len(result.ret) = 3
    /\ result.ret[3].season = 2023 /\ result.ret[3].week = 2

(***************************************************************************)
(* C20.  get_breakout_candidates.                                          *)
(***************************************************************************)
IsBreakoutScreen == result.op = "get_breakout_candidates"

\* The player's window is fitted by a line of slope above 2.00.
Rising(player_id) ==
    /\ Cardinality(WindowOf(player_id)) >= 2
    /\ FitNum(WindowOf(player_id)) > 200 * FitDen(WindowOf(player_id))

\* C20: get_breakout_candidates returns no player with fewer than
\* MIN_GAMES_PLAYED stat lines in the window; every returned player has an
\* improving trend and a slope of min_trend or more; the result is ordered by
\* slope, greatest first, and holds 20 entries at most.
C20_BreakoutScreen ==
    IsBreakoutScreen =>
        /\ Len(result.ret) <= 20
        /\ \A i \in 1..Len(result.ret) :
                /\ Cardinality(WindowOf(result.ret[i].player.player_id))
                        >= MIN_GAMES_PLAYED
                /\ result.ret[i].recent_games >= MIN_GAMES_PLAYED
                /\ Rising(result.ret[i].player.player_id)
                /\ result.ret[i].trend_value >= result.min_trend
        /\ \A i \in 1..Len(result.ret), j \in 1..Len(result.ret) :
                i < j => result.ret[i].trend_value >= result.ret[j].trend_value

\* 21 players or more qualify for a screen of all positions: 20 are returned,
\* p1 with the greatest slope first, while a player with a smaller slope is
\* among them.
C20_Witness ==
    /\ IsBreakoutScreen
    /\ result.position = ""
    /\ Cardinality({id \in DOMAIN players :
                        Rising(id) /\ calculate_trend(player_stats, id).trend_value
                                        >= result.min_trend}) > 20
    /\ Len(result.ret) = 20
    /\ result.ret[1].player.player_id = "p1"
    /\ result.ret[20].trend_value < result.ret[1].trend_value

(***************************************************************************)
(* C21.  get_sell_high_candidates.                                         *)
(***************************************************************************)
IsSellHighScreen == result.op = "get_sell_high_candidates"

\* The analysis of a known player is full, its recent average is above 1.2
\* times the earlier one and its trend is declining or stable.
SellHigh(player_id) ==
    /\ ~HasError(get_player_analysis(players, player_stats, player_id))
    /\ 5 * get_player_analysis(players, player_stats, player_id).recent_avg
            > 6 * get_player_analysis(players, player_stats, player_id).earlier_avg
    /\ get_player_analysis(players, player_stats, player_id).trend
            \in {"declining", "stable"}

\* The spike of a player: recent_avg - earlier_avg.
SpikeOf(player_id) ==
    get_player_analysis(players, player_stats, player_id).recent_avg
        - get_player_analysis(players, player_stats, player_id).earlier_avg

\* The players the screen of result.position scans.
Scanned ==
    {id \in DOMAIN players :
        result.position = "" \/ players[id].position = result.position}

IsUpgradeSearch == result.op = "find_upgrade_opportunities"

ValueOf(player_id) == calculate_player_value(players, player_stats, player_id)

\* The value of the roster's weakest player at a position it holds.
WeakestValueAt(position) ==
    CHOOSE v \in {ValueOf(id) : id \in RosterAt(position)} :
        \A id \in RosterAt(position) : v <= ValueOf(id)

\* A known player off the roster, at a searched position the roster holds,
\* worth at least 1.2 times the weakest roster player there, with the
\* minimum of games played.
IsUpgrade(player_id) ==
    /\ player_id \in DOMAIN players \ my_team
    /\ result.position \in {"", players[player_id].position}
    /\ RosterAt(players[player_id].position) # {}
    /\ 5 * ValueOf(player_id) >= 6 * WeakestValueAt(players[player_id].position)
    /\ ~HasError(get_player_analysis(players, player_stats, player_id))
    /\ get_player_analysis(players, player_stats, player_id).games_played
            >= MIN_GAMES_PLAYED

\* C22: find_upgrade_opportunities flags every player off the roster, at a
\* roster position, whose value is at least 1.2 times the value of the
\* roster's weakest player there (the exact 20% boundary included) and who
\* has the minimum of games played; roster players are never flagged; the
\* result is ordered by value gain, greatest first, and cut to 10.
C22_UpgradeBoundaryIncluded ==
    IsUpgradeSearch =>
        /\ Len(result.ret) <= 10
        /\ \A i \in 1..Len(result.ret) :
                result.ret[i].upgrade_to.player_id \notin my_team
        /\ \A i \in 1..Len(result.ret), j \in 1..Len(result.ret) :
                i < j => result.ret[i].value_gain >= result.ret[j].value_gain
        /\ \A id \in DOMAIN players :
                (IsUpgrade(id) /\ \A i \in 1..Len(result.ret) :
                                     result.ret[i].upgrade_to.player_id # id)
                    => /\ Len(result.ret) = 10
                       /\ ValueOf(id) - WeakestValueAt(players[id].position)
                            <= result.ret[10].value_gain

(***************************************************************************)
(* C23.  The positional-impact text.                                       *)
(***************************************************************************)
PositionCodes == {"QB", "RB", "WR", "TE", "K", "DEF"}

\* The known players of a trade side at a position, counted with repeats.
HeadcountAt(ids, position) ==
    Cardinality({i \in 1..Len(ids) :
                    /\ ids[i] \in DOMAIN players
                    /\ players[ids[i]].position = position})

NetHeadcount(position) ==
    HeadcountAt(result.players_in, position)
        - HeadcountAt(result.players_out, position)

\* The weaknesses get_team_analysis identifies for the roster.
RosterWeaknesses ==
    weaknesses_of(get_team_analysis(players, player_stats, my_team))

\* How many times the impact text has the note for the position.
NotesOf(note, position) ==
    Cardinality({i \in 1..Len(result.ret.reason.impact) :
                    result.ret.reason.impact[i]
                        = [note |-> note, position |-> position]})

\* C23: the positional-impact text of evaluate_trade has exactly one
\* "Weakens <pos> depth" note for each position whose net headcount in the
\* trade is negative and whose roster count less the net loss is below 2,
\* and exactly one "Addresses <pos> weakness" note for each position gained
\* that an identified roster weakness names; it has no other note.
C23_OneNotePerPosition ==
    (IsEvaluation /\ "reason" \in DOMAIN result.ret) =>
        \A position \in PositionCodes :
            /\ NotesOf("Weakens depth", position)
                    = IF /\ NetHeadcount(position) < 0
                         /\ Cardinality(RosterAt(position)) + NetHeadcount(position) < 2
                      THEN 1 ELSE 0
            /\ NotesOf("Addresses weakness", position)
                    = IF /\ HeadcountAt(result.players_in, position) > 0
                         /\ \E i \in 1..Len(RosterWeaknesses) :
                                RosterWeaknesses[i].position = position
                      THEN 1 ELSE 0

(***************************************************************************)
(* C24.  The positions of the players table.                               *)
(***************************************************************************)
\* C24: after any sequence of update_player_database and import_players_csv
\* calls, every stored player has a position among QB, RB, WR, TE, K, DEF.
C24_StoredPositionsInEnum ==
    \A id \in DOMAIN players : players[id].position \in PositionCodes

(***************************************************************************)
(* C25.  The scoring of a stat line.                                       *)
(***************************************************************************)
IsScoring ==
    result.op \in {"calculate_fantasy_points", "_calculate_fantasy_points"}

CountKeys ==
    {"passing_yards", "passing_tds", "interceptions", "rushing_yards",
     "rushing_tds", "receptions", "receiving_yards", "receiving_tds", "fumbles"}

\* Every raw count of the line is 0 or absent.
ZeroLine(stats) ==
    \A key \in CountKeys : key \in DOMAIN stats => stats[key] = 0

\* C25: a stat line whose raw counts are all 0 or absent scores 0 under every
\* scoring mode, also a mode string that is none of the three formats, in
\* both calculate_fantasy_points and _calculate_fantasy_points; and on every
\* stat line the two give the same points for the same mode.
C25_ZeroLineScoresZeroAndFormulasAgree ==
    IsScoring =>
        /\ ZeroLine(result.stats) => result.ret = 0
        /\ result.ret = calculate_fantasy_points(result.stats, result.scoring)
        /\ result.ret = _calculate_fantasy_points(result.stats, result.scoring)

\* The importer scored a line of nine zero counts under the mode "ppr", and
\* the fetcher's format gives a reception half a point.
C25_Witness ==
    /\ result.op = "_calculate_fantasy_points"
    /\ result.scoring = "ppr"
    /\ DOMAIN result.stats = CountKeys
    /\ ZeroLine(result.stats)
    /\ result.ret = 0
    /\ calculate_fantasy_points([receptions |-> 1], "Half-PPR") = 50

(***************************************************************************)
(* C26.  The roster cap when player records are re-synced.                 *)
(***************************************************************************)
\* C26: after any sequence of add_player, remove_player and upsert_player
\* calls, the roster, counted by the current positions of its players as
\* get_team reports them, holds at most ROSTER_LIMITS[position] players of
\* each position.
C26_CapHoldsUnderResync ==
    \A position \in DOMAIN ROSTER_LIMITS :
        CountAt(get_team(players, my_team), position) <= ROSTER_LIMITS[position]

(***************************************************************************)
(* C27.  Division by zero in the trade analysis.                           *)
(***************************************************************************)
\* C27: no trade-analysis call ends with a division by zero:
\* suggest_trades_for_player returns a list, also when the target and a
\* roster player are both worth 0, and evaluate_trade returns its
\* dictionary.
C27_NoDivisionByZero ==
    /\ result.op = "suggest_trades_for_player" => result.raised = ""
    /\ result.op = "evaluate_trade" => "raised" \notin DOMAIN result.ret

(***************************************************************************)
(* C28.  get_player_analysis and a concurrent writer.                      *)
(***************************************************************************)
\* C28: every analysis get_player_analysis returns is computed from one
\* snapshot of the window, also when a stat upsert of another process falls
\* between its reads: avg_points, consistency, trend and trend_value are
\* those of the stat lines that recent_stats, games_played and total_points
\* of the same result come from.
C28_AnalysisFromOneSnapshot ==
    (IsAnalysis /\ ~HasError(result.ret)) =>
        /\ result.ret.games_played = Len(result.ret.recent_stats)
        /\ result.ret.total_points = SumSeq(Points(result.ret.recent_stats))
        /\ result.ret.avg_points = mean_points(Points(result.ret.recent_stats))
        /\ result.ret.consistency
                = consistency_score(Points(result.ret.recent_stats))
        /\ result.ret.trend = trend_of(Points(result.ret.recent_stats)).trend
        /\ result.ret.trend_value
                = trend_of(Points(result.ret.recent_stats)).trend_value

(***************************************************************************)
(* C29.  Failed and successful roster mutations.                           *)
(***************************************************************************)
\* The roster holds the limit of players at the position of a known player.
AtLimit(player_id) ==
    Cardinality(RosterAt(players[player_id].position))
        >= (IF players[player_id].position \in DOMAIN ROSTER_LIMITS
            THEN ROSTER_LIMITS[players[player_id].position] ELSE 0)

\* The step is an add_player call that has to fail: unknown player, position
\* at its limit, or player already on the team.
AddHasToFail ==
    /\ result'.op = "add_player"
    /\ \/ result'.player_id \notin DOMAIN players
       \/ result'.player_id \in my_team
       \/ AtLimit(result'.player_id)

\* The step is a remove_player call that has to fail: unknown player, or
\* player not on the team.
RemoveHasToFail ==
    /\ result'.op = "remove_player"
    /\ \/ result'.player_id \notin DOMAIN players
       \/ result'.player_id \notin my_team

\* C29: add_player for an unknown player, a position at its limit or a
\* player already on the team, and remove_player for an unknown player or a
\* player not on the team, report success = False; every call that reports
\* success = False leaves the roster unchanged; a successful add_player adds
\* exactly that player, a successful remove_player removes exactly that
\* player; every roster entry refers to a known player.
C29_RosterMutations ==
    /\ [](my_team \subseteq DOMAIN players)
    /\ [][/\ (AddHasToFail \/ RemoveHasToFail) => ~result'.ret.success
          /\ (result'.op \in {"add_player", "remove_player"}
                    /\ ~result'.ret.success)
                => my_team' = my_team
          /\ (result'.op = "add_player" /\ result'.ret.success)
                => /\ result'.player_id \notin my_team
                   /\ my_team' = my_team \cup {result'.player_id}
          /\ (result'.op = "remove_player" /\ result'.ret.success)
                => /\ result'.player_id \in my_team
                   /\ my_team' = my_team \ {result'.player_id}]_vars

\* add_player was refused for a player already on the team, whose position
\* is below its limit: the roster still holds the player.
C29_Witness ==
    /\ result.op = "add_player"
    /\ ~result.ret.success
    /\ result.ret.message.text = "Player already on your team"
    /\ result.player_id \in my_team
    /\ ~AtLimit(result.player_id)

(***************************************************************************)
(* C30.  The scheduler.                                                    *)
(***************************************************************************)
Scheduler == pending["c1"]

\* The last refresh raised and daily_refresh has returned to the loop.
RefreshFailed == Scheduler.pc = "waiting" /\ Scheduler.failed

\* A refresh started by run_pending is under way, the one before it failed.
RefreshAfterFailure ==
    /\ Scheduler.pc = "refreshing"
    /\ Scheduler.scheduled
    /\ Scheduler.after_failure

\* C30: run_scheduler begins a refresh at once; an exception raised inside a
\* refresh never ends the loop of run_scheduler, and after a failed refresh a
\* scheduled one is attempted again; within a refresh the player sync runs
\* before the weekly stat updates, every refresh that did not raise has run
\* both, and after a failed player fetch the stat updates are attempted.
C30_SchedulerKeepsRefreshing ==
    /\ [](Scheduler.pc # "stopped")
    /\ [][Scheduler.pc = "idle"
            => /\ pending'["c1"].pc = "refreshing"
               /\ ~pending'["c1"].scheduled]_vars
    /\ [](Scheduler.pc # "idle"
            => /\ Scheduler.done \in {<<>>, <<"players">>, <<"players", "stats">>}
               /\ (Scheduler.pc = "waiting" /\ ~Scheduler.failed)
                    => Scheduler.done = <<"players", "stats">>)
    /\ RefreshFailed ~> RefreshAfterFailure
    /\ (Scheduler.pc = "refreshing" /\ Scheduler.fetch_failed)
            ~> (Scheduler.pc = "waiting" /\ Scheduler.done = <<"players", "stats">>)

\* A scheduled refresh, begun after a failed one, whose player fetch failed,
\* has attempted the stat updates.
C30_Witness ==
    /\ Scheduler.pc = "waiting"
    /\ Scheduler.scheduled
    /\ Scheduler.after_failure
    /\ Scheduler.fetch_failed
    /\ Scheduler.done = <<"players", "stats">>

====
